---- MODULE Spec2Model ----
(***************************************************************************)
(* Model of the task-orchestration core: the priority TaskQueue with       *)
(* dependency gating (core/task_queue.py), the AgentRegistry               *)
(* (core/agent_registry.py), the DependencyGraph                           *)
(* (core/dependency_graph.py), the MessageBus mailboxes                    *)
(* (core/message_bus.py) and the Orchestrator dispatch loop                *)
(* (core/orchestrator.py).                                                 *)
(***************************************************************************)
EXTENDS Integers, Sequences, FiniteSets, TLC

\* ---------------------------------------------------------------- bounds
MaxTasks == 3        \* tasks ever added to one queue
MaxQueue == 3        \* entries of the heap (a repeated complete_task puts a task again)
MaxDeps == 2         \* dependency IDs given to one add_task call
MaxFifoTasks == 4    \* tasks added when the order of equal priorities is observed
MaxApiTasks == 2     \* tasks added when every TaskQueue call is made on every ID
MaxOrchTasks == 2    \* tasks added to an orchestrator
MaxAgents == 1       \* agents registered with an orchestrator
MaxIterations == 3   \* the max_iterations given to execute_all
MaxNodes == 3        \* node IDs given to the calls of one DependencyGraph
MaxWorkload == 2     \* increment_workload is not called on a workload this high
MaxRecords == 2      \* record_task_completion calls counted for one AgentInfo
MaxRegAgents == 2    \* agent IDs given to a registry whose indexes are observed
MaxThreads == 2      \* threads that call one SharedMemory
MaxWrites == 2       \* write calls made on one SharedMemory
MaxReads == 1        \* read calls that find an entry
MaxObservers == 2    \* callbacks in the observer list of one key
MaxDepth == 1        \* blackboard calls nested in observer callbacks
MaxResults == 3      \* results given to one aggregate call
MaxMessages == 2     \* messages put into the mailboxes of a bus driven directly

\* ------------------------------------------------------ program constants
CRITICAL == 0
HIGH == 1
MEDIUM == 2
LOW == 3
Priorities == {CRITICAL, HIGH, MEDIUM, LOW}

PENDING == "pending"
IN_PROGRESS == "in_progress"
COMPLETED == "completed"
FAILED == "failed"
CANCELLED == "cancelled"

None == "None"
\* a dependency ID that names no task of the queue
UnknownId == 0
\* get_next_task returned None
NoTask == -1
\* no node: the argument a DependencyGraph call does not take
NoNode == -1
\* no thread holds the lock
NoThread == 0
\* persistence_path does not exist; an existing file is <<its content>>
NoFile == <<>>
\* a thread that is in no SharedMemory call
NoCall == [op |-> "none"]
\* find_available_agent returned None
NoAgent == -1
\* the mailbox owner "orchestrator" (agent IDs are 1, 2, ...)
OrchestratorId == 0
max_history_size == 1000

\* the names of the agents registered (an agent's name is its type), and the
\* agent types tasks ask for: no agent of type "Analyst" is ever registered
AgentTypes == {"Researcher"}
TaskTypes == {"Researcher", "Analyst"}
AgentIds == 1..MaxAgents
\* the priorities of the tasks given to an orchestrator
OrchPriorities == {HIGH, MEDIUM}
\* the registrations a registry driven directly is given
RegAgentIds == 1..MaxRegAgents
RegTypes == {"Researcher", "Analyst"}
Capabilities == {"research", "analysis"}
CapChoices == {{"research"}, {"research", "analysis"}}
AgentStatuses == {"idle", "busy", "offline"}
Threads == 1..MaxThreads
\* the agent IDs and message types given to a bus driven directly
BusAgents == {1, 2}
\* the keys, observer callbacks and values given to a blackboard driven
\* directly; a Python value is <<its type, what it holds>>
MemKeys == {"k1", "k2"}
ObserverIds == {1, 2}
BoardValues == {<<"str", 1>>}
PyValues == {<<"str", 1>>, <<"list", 2>>, <<"tuple", 2>>}
\* how a call of an observer callback ends
Outcomes == {"returns", "Exception"}
MsgTypes == {"notification", "question"}
ResultValues == {"r1"}
ErrorValues == {"e1"}

VARIABLES
    tasks,        \* TaskQueue.tasks: task_id -> Task
    queue,        \* TaskQueue.queue: the heap list of the PriorityQueue
    pending,      \* TaskQueue.pending
    in_progress,  \* TaskQueue.in_progress
    completed,    \* TaskQueue.completed
    failed,       \* TaskQueue.failed
    order,        \* history: the entries of the heap in the order of their put
    lastOp,       \* history: the last TaskQueue call and what it returned
    agents,           \* AgentRegistry.agents: agent_id -> AgentInfo
    agents_by_type,   \* AgentRegistry.agents_by_type: agent_type -> set of agent_id
    agents_by_capability,  \* AgentRegistry.agents_by_capability: capability -> set of agent_id
    lastReg,          \* history: the last AgentRegistry call and what it returned
    graph,            \* DependencyGraph.graph: node -> the nodes it depends on
    reverse_graph,    \* DependencyGraph.reverse_graph: node -> the nodes that depend on it
    nodes,            \* DependencyGraph.nodes
    lastGraph,        \* history: the last DependencyGraph call and what it returned
    queues,           \* MessageBus.queues: mailbox owner -> FIFO of messages
    stats,            \* MessageBus.stats
    message_history,  \* MessageBus.message_history
    data,             \* SharedMemory.data: key -> MemoryEntry
    working,          \* per agent: the task message it received and has not answered
    pc,               \* where the thread in Orchestrator.execute_all stands
    max_iterations,   \* execute_all: the argument
    iteration,        \* execute_all: the local counter
    results,          \* execute_all: the summary being built
    cur,              \* execute_task: the task, and the agent selected for it
    lastExec,         \* history: the last execute_task call and how control left it
    dequeues,         \* history: the get_next_task calls of the execute_all run
    subscriptions,    \* MessageBus.subscriptions: msg_type -> set of agent_id
    lastBus,          \* history: the last MessageBus call and what it returned
    sentLog,          \* history: the messages put into a mailbox, in the order of the puts
    recvLog,          \* history: the messages receive has returned, in the order of the calls
    global_lock,      \* SharedMemory._global_lock: the thread that holds it
    key_locks,        \* SharedMemory._key_locks: key -> the thread that holds the key's lock
    observers,        \* SharedMemory._observers: key -> list of callbacks
    mem_stats,        \* SharedMemory.stats
    enable_persistence,  \* SharedMemory.enable_persistence
    disk,             \* the file at SharedMemory.persistence_path
    mpc,              \* per thread: where it stands in its SharedMemory call
    mloc,             \* per thread: the arguments and locals of its SharedMemory call
    notified,         \* history: the observer callbacks invoked, in order
    lastMem,          \* history: the last SharedMemory call that returned
    lastAgg           \* history: the last ResultAggregator.aggregate call

qvars == <<tasks, queue, pending, in_progress, completed, failed, order, lastOp>>
regvars == <<agents, agents_by_type, agents_by_capability, lastReg>>
\* the registry fields the orchestrator's run leaves alone
capvars == <<agents_by_capability, lastReg>>
gvars == <<graph, reverse_graph, nodes, lastGraph>>
\* the bus, the blackboard, the workers and the execute_all run
dispatchvars == <<queues, stats, message_history, data, working,
                  pc, max_iterations, iteration, results, cur, lastExec, dequeues,
                  subscriptions, lastBus, sentLog, recvLog,
                  global_lock, key_locks, observers, mem_stats, enable_persistence,
                  disk, mpc, mloc, notified, lastMem, lastAgg>>
busvars == <<queues, stats, message_history>>
\* the bus fields send and receive leave alone, and the histories of the bus
mailvars == <<subscriptions, lastBus, sentLog, recvLog>>
\* the blackboard's locks, observers, statistics, file, threads and histories
boardvars == <<global_lock, key_locks, observers, mem_stats, enable_persistence,
               disk, mpc, mloc, notified, lastMem>>
\* what a run of the orchestrator leaves alone of the bus and the blackboard
auxvars == <<mailvars, boardvars, lastAgg>>
runvars == <<pc, max_iterations, iteration, results, cur, lastExec, dequeues>>
ovars == <<agents, agents_by_type, agents_by_capability, lastReg,
           graph, reverse_graph, nodes, lastGraph,
           queues, stats, message_history, data, working,
           pc, max_iterations, iteration, results, cur, lastExec, dequeues,
           subscriptions, lastBus, sentLog, recvLog,
           global_lock, key_locks, observers, mem_stats, enable_persistence,
           disk, mpc, mloc, notified, lastMem, lastAgg>>
vars == <<tasks, queue, pending, in_progress, completed, failed, order, lastOp,
          agents, agents_by_type, agents_by_capability, lastReg,
          graph, reverse_graph, nodes, lastGraph,
          queues, stats, message_history, data, working,
          pc, max_iterations, iteration, results, cur, lastExec, dequeues,
          subscriptions, lastBus, sentLog, recvLog,
          global_lock, key_locks, observers, mem_stats, enable_persistence,
          disk, mpc, mloc, notified, lastMem, lastAgg>>

TaskIds == DOMAIN tasks
NextTaskId == Cardinality(DOMAIN tasks) + 1

\* the priority an entry of the heap is compared by (Task is order=True with
\* priority the only compare=True field)
Prio == [t \in DOMAIN tasks |-> tasks[t].priority]

\* --------------------------------------------------------------- the heap
\* queue.PriorityQueue keeps a list ordered by heapq; index i here is
\* position i-1 of the Python list, so the parent of i is i \div 2 and its
\* children are 2i and 2i+1.
RECURSIVE SiftDownFrom(_, _, _, _, _)
SiftDownFrom(h, pr, newitem, startpos, pos) ==
    IF pos > startpos /\ pr[newitem] < pr[h[pos \div 2]]
    THEN SiftDownFrom([h EXCEPT ![pos] = h[pos \div 2]], pr, newitem, startpos, pos \div 2)
    ELSE [h EXCEPT ![pos] = newitem]

\* a put that appends and compares nothing, as a plain Queue does
siftdownNone(h, pr, startpos, pos) == h

siftdown(h, pr, startpos, pos) == SiftDownFrom(h, pr, h[pos], startpos, pos)

RECURSIVE SiftUpFrom(_, _, _, _, _)
SiftUpFrom(h, pr, newitem, startpos, pos) ==
    LET childpos == 2 * pos
        rightpos == childpos + 1
    IN  IF childpos <= Len(h)
        THEN LET c == IF rightpos <= Len(h) /\ ~(pr[h[childpos]] < pr[h[rightpos]])
                      THEN rightpos ELSE childpos
             IN  SiftUpFrom([h EXCEPT ![pos] = h[c]], pr, newitem, startpos, c)
        ELSE siftdown([h EXCEPT ![pos] = newitem], pr, startpos, pos)

siftup(h, pr, pos) == SiftUpFrom(h, pr, h[pos], pos, pos)

\* PriorityQueue.put
heappush(h, pr, item) == siftdown(Append(h, item), pr, 1, Len(h) + 1)

\* PriorityQueue.get on a non-empty heap: the item returned and the heap left
heappop(h, pr) ==
    LET lastelt == h[Len(h)]
        rest == SubSeq(h, 1, Len(h) - 1)
    IN  IF rest # <<>>
        THEN [item |-> h[1], heap |-> siftup([rest EXCEPT ![1] = lastelt], pr, 1)]
        ELSE [item |-> lastelt, heap |-> <<>>]

RECURSIVE PutAll(_, _, _)
PutAll(h, pr, items) ==
    IF items = <<>> THEN h
    ELSE PutAll(heappush(h, pr, Head(items)), pr, Tail(items))

\* the orders in which a for loop may visit the elements of a Python set
Perms(S) == {s \in [1..Cardinality(S) -> S] : \A i, j \in 1..Cardinality(S) : s[i] = s[j] => i = j}

RECURSIVE RemoveFirst(_, _)
RemoveFirst(s, x) ==
    IF s = <<>> THEN <<>>
    ELSE IF Head(s) = x THEN Tail(s)
    ELSE <<Head(s)>> \o RemoveFirst(Tail(s), x)

Range(s) == {s[i] : i \in DOMAIN s}

\* --------------------------------------------------------------- TaskQueue
\* Task(...) as add_task constructs it
NewTask(p, ty, deps) ==
    [priority |-> p, agent_type |-> ty, dependencies |-> deps,
     status |-> PENDING, result |-> None, error |-> None]

\* any() where the code has all()
CanExecuteAny(deps, done) == deps = {} \/ \E d \in deps : d \in done

\* TaskQueue._can_execute of a task with the given dependencies
CanExecute(deps, done) == deps = {} \/ \A d \in deps : d \in done

\* TaskQueue.add_task
QAddTask(p, ty, deps) ==
    LET id == NextTaskId
        tk == NewTask(p, ty, deps)
        pr == (id :> p) @@ Prio
    IN  /\ tasks' = (id :> tk) @@ tasks
        /\ pending' = pending \cup {id}
        /\ IF CanExecute(deps, completed)
           THEN /\ queue' = heappush(queue, pr, id)
                /\ order' = Append(order, id)
           ELSE UNCHANGED <<queue, order>>
        /\ lastOp' = [op |-> "add_task", id |-> id]
        /\ UNCHANGED <<in_progress, completed, failed>>

\* TaskQueue.get_next_task with a timeout: a task of the heap, or None
QGetNextTask ==
    IF queue # <<>>
    THEN LET r == heappop(queue, Prio)
         IN  /\ queue' = r.heap
             /\ order' = RemoveFirst(order, r.item)
             /\ pending' = pending \ {r.item}
             /\ in_progress' = in_progress \cup {r.item}
             /\ tasks' = [tasks EXCEPT ![r.item].status = IN_PROGRESS]
             /\ lastOp' = [op |-> "get_next_task", id |-> r.item]
             /\ UNCHANGED <<completed, failed>>
    ELSE /\ lastOp' = [op |-> "get_next_task", id |-> NoTask]
         /\ UNCHANGED <<tasks, queue, pending, in_progress, completed, failed, order>>

\* the loop without its _can_execute test
UnblockedUnchecked(id, done) == {t \in pending : id \in tasks[t].dependencies}

\* TaskQueue._check_dependent_tasks, run with self.completed already updated:
\* the pending tasks it puts on the heap
Unblocked(id, done) ==
    {t \in pending : id \in tasks[t].dependencies /\ CanExecute(tasks[t].dependencies, done)}

\* TaskQueue.complete_task
QCompleteTask(id, result) ==
    IF id \notin DOMAIN tasks
    THEN /\ lastOp' = [op |-> "complete_task", id |-> id]
         /\ UNCHANGED <<tasks, queue, pending, in_progress, completed, failed, order>>
    ELSE /\ tasks' = [tasks EXCEPT ![id].status = COMPLETED, ![id].result = result]
         /\ in_progress' = in_progress \ {id}
         /\ completed' = completed \cup {id}
         /\ \E s \in Perms(Unblocked(id, completed \cup {id})) :
                /\ queue' = PutAll(queue, Prio, s)
                /\ order' = order \o s
         /\ lastOp' = [op |-> "complete_task", id |-> id]
         /\ UNCHANGED <<pending, failed>>

\* TaskQueue.fail_task
QFailTask(id, error) ==
    IF id \notin DOMAIN tasks
    THEN /\ lastOp' = [op |-> "fail_task", id |-> id]
         /\ UNCHANGED <<tasks, queue, pending, in_progress, completed, failed, order>>
    ELSE /\ tasks' = [tasks EXCEPT ![id].status = FAILED, ![id].error = error]
         /\ in_progress' = in_progress \ {id}
         /\ failed' = failed \cup {id}
         /\ lastOp' = [op |-> "fail_task", id |-> id]
         /\ UNCHANGED <<queue, pending, completed, order>>

\* TaskQueue.cancel_task
QCancelTask(id) ==
    IF id \notin DOMAIN tasks
    THEN /\ lastOp' = [op |-> "cancel_task", id |-> id]
         /\ UNCHANGED <<tasks, queue, pending, in_progress, completed, failed, order>>
    ELSE /\ tasks' = [tasks EXCEPT ![id].status = CANCELLED]
         /\ pending' = pending \ {id}
         /\ in_progress' = in_progress \ {id}
         /\ lastOp' = [op |-> "cancel_task", id |-> id]
         /\ UNCHANGED <<queue, completed, failed, order>>

\* the dependency lists a caller can pass: IDs of tasks already added (a
\* task ID is a fresh uuid4, so no ID of a later task) or an unknown ID
DepChoices == {d \in SUBSET (DOMAIN tasks \cup {UnknownId}) : Cardinality(d) <= MaxDeps}

\* ----------------------------------------------- TaskQueue driven directly
QInit ==
    /\ tasks = <<>>
    /\ queue = <<>>
    /\ pending = {}
    /\ in_progress = {}
    /\ completed = {}
    /\ failed = {}
    /\ order = <<>>
    /\ lastOp = [op |-> "init", id |-> NoTask]

\* Orchestrator.__init__: empty registry, bus and blackboard, no run started
OInit ==
    /\ agents = <<>>
    /\ agents_by_type = <<>>
    /\ agents_by_capability = <<>>
    /\ lastReg = [op |-> "init", agent_id |-> NoAgent, key |-> None, was |-> NoAgent,
                  raised |-> FALSE, result |-> {}]
    /\ graph = <<>>
    /\ reverse_graph = <<>>
    /\ nodes = {}
    /\ lastGraph = [op |-> "init", node_id |-> NoNode, depends_on |-> NoNode,
                    raised |-> FALSE, result |-> <<>>]
    /\ queues = <<>>
    /\ stats = [messages_sent |-> 0, messages_received |-> 0, broadcasts_sent |-> 0]
    /\ message_history = <<>>
    /\ data = <<>>
    /\ working = <<>>
    /\ pc = "idle"
    /\ max_iterations = 0
    /\ iteration = 0
    /\ results = [total_tasks |-> 0, completed |-> <<>>, failed |-> <<>>, cancelled |-> <<>>]
    /\ cur = [task |-> NoTask, agent |-> NoAgent]
    /\ lastExec = [task |-> NoTask, agent |-> NoAgent, outcome |-> "none",
                   workload_before |-> 0, failed_before |-> 0]
    /\ dequeues = 0
    /\ subscriptions = <<>>
    /\ lastBus = [op |-> "init", agent_id |-> NoAgent, msg |-> <<>>,
                  raised |-> FALSE, created |-> FALSE, result |-> <<>>]
    /\ sentLog = <<>>
    /\ recvLog = <<>>
    /\ global_lock = NoThread
    /\ key_locks = <<>>
    /\ observers = <<>>
    /\ mem_stats = [reads |-> 0, writes |-> 0, deletes |-> 0, notifications_sent |-> 0]
    /\ enable_persistence = FALSE
    /\ disk = NoFile
    /\ mpc = [t \in Threads |-> "idle"]
    /\ mloc = [t \in Threads |-> NoCall]
    /\ notified = <<>>
    /\ lastMem = [op |-> "init", thread |-> NoThread, key |-> None, raised |-> FALSE,
                  result |-> FALSE, version |-> 0, called |-> <<>>]
    /\ lastAgg = [op |-> "init", results |-> <<>>, strategy |-> "none", returned |-> <<"None">>]

Init == QInit /\ OInit

\* the priorities of the tasks added where dependencies are observed
DrivenPriorities == {HIGH, MEDIUM}

AddTask ==
    /\ Cardinality(DOMAIN tasks) < MaxTasks
    /\ \E p \in DrivenPriorities, deps \in DepChoices : QAddTask(p, "Researcher", deps)
    /\ UNCHANGED ovars

GetNextTask == QGetNextTask /\ UNCHANGED ovars

CompleteTask ==
    /\ \E id \in DOMAIN tasks \cup {UnknownId}, r \in ResultValues : QCompleteTask(id, r)
    /\ Len(queue') <= MaxQueue
    /\ UNCHANGED ovars

FailTask ==
    /\ \E id \in DOMAIN tasks \cup {UnknownId}, e \in ErrorValues : QFailTask(id, e)
    /\ UNCHANGED ovars

CancelTask ==
    /\ \E id \in DOMAIN tasks \cup {UnknownId} : QCancelTask(id)
    /\ UNCHANGED ovars

\* complete_task / fail_task only on tasks that are IN_PROGRESS, as
\* Orchestrator.execute_all calls them
CompleteInProgress ==
    /\ \E id \in in_progress, r \in ResultValues : QCompleteTask(id, r)
    /\ UNCHANGED ovars

FailInProgress ==
    /\ \E id \in in_progress, e \in ErrorValues : QFailTask(id, e)
    /\ UNCHANGED ovars

\* add_task, get_next_task, and complete_task / fail_task of dispatched tasks
DrivenNext == AddTask \/ GetNextTask \/ CompleteInProgress \/ FailInProgress

DrivenSpec == Init /\ [][DrivenNext]_vars

\* any sequence of TaskQueue calls, on any task ID
ApiAddTask ==
    /\ Cardinality(DOMAIN tasks) < MaxApiTasks
    /\ \E p \in Priorities, deps \in DepChoices : QAddTask(p, "Researcher", deps)
    /\ UNCHANGED ovars

QNext == ApiAddTask \/ GetNextTask \/ CompleteTask \/ FailTask \/ CancelTask

QueueSpec == Init /\ [][QNext]_vars

\* ----------------------------------------------------------- AgentRegistry
\* AgentInfo(...) as register constructs it
NewAgentInfo(ty, caps) ==
    [agent_type |-> ty, capabilities |-> caps, status |-> "idle", workload |-> 0,
     total_tasks_completed |-> 0, total_tasks_failed |-> 0]

\* AgentRegistry.register: a known agent_id gets a new AgentInfo; the entries
\* the indexes hold for it are left where they are
RegRegister(a, ty, caps) ==
    /\ agents' = (a :> NewAgentInfo(ty, caps)) @@ agents
    /\ agents_by_type' =
           IF ty \in DOMAIN agents_by_type
           THEN [agents_by_type EXCEPT ![ty] = @ \cup {a}]
           ELSE (ty :> {a}) @@ agents_by_type
    /\ agents_by_capability' =
           [c \in DOMAIN agents_by_capability \cup caps |->
               (IF c \in DOMAIN agents_by_capability THEN agents_by_capability[c] ELSE {})
                   \cup (IF c \in caps THEN {a} ELSE {})]

\* AgentRegistry.unregister of a registered agent: the entries of its current
\* type and of its current capabilities are discarded, then the AgentInfo
RegUnregister(a) ==
    LET agent_info == agents[a]
    IN  /\ agents_by_type' =
               IF agent_info.agent_type \in DOMAIN agents_by_type
               THEN [agents_by_type EXCEPT ![agent_info.agent_type] = @ \ {a}]
               ELSE agents_by_type
        /\ agents_by_capability' =
               [c \in DOMAIN agents_by_capability |->
                   IF c \in agent_info.capabilities
                   THEN agents_by_capability[c] \ {a}
                   ELSE agents_by_capability[c]]
        /\ agents' = [b \in DOMAIN agents \ {a} |-> agents[b]]

\* AgentRegistry.find_by_type: the IDs the index holds for the type; the list
\* comprehension then reads self.agents[aid] for each of them
FindByType(ty) == IF ty \in DOMAIN agents_by_type THEN agents_by_type[ty] ELSE {}

\* find_by_type raises KeyError: the index holds an ID that self.agents lacks
FindByTypeRaises(ty) == \E a \in FindByType(ty) : a \notin DOMAIN agents

\* AgentRegistry.find_by_capability
FindByCapability(c) ==
    IF c \in DOMAIN agents_by_capability THEN agents_by_capability[c] ELSE {}

FindByCapabilityRaises(c) == \E a \in FindByCapability(c) : a \notin DOMAIN agents

\* AgentRegistry.find_available_agent(agent_type=ty): the agents min() may
\* return (the candidates are listed in the iteration order of a set), the
\* empty set when it returns None
FindAvailableAgent(ty) ==
    LET candidates == {a \in FindByType(ty) \cap DOMAIN agents :
                           agents[a].status \in {"idle", "busy"}}
    IN  {a \in candidates : \A b \in candidates : agents[a].workload <= agents[b].workload}

\* AgentInfo.increment_workload
IncrementWorkload(info) == [info EXCEPT !.workload = @ + 1, !.status = "busy"]

\* a decrement without the max(0, ...)
DecrementWorkloadUnclamped(info) ==
    [info EXCEPT !.workload = @ - 1, !.status = IF info.workload - 1 = 0 THEN "idle" ELSE @]

\* AgentInfo.decrement_workload
DecrementWorkload(info) ==
    LET w == IF info.workload - 1 > 0 THEN info.workload - 1 ELSE 0
    IN  [info EXCEPT !.workload = w, !.status = IF w = 0 THEN "idle" ELSE @]

\* AgentRegistry.increment_agent_workload
RegIncrement(reg, a) ==
    IF a \in DOMAIN reg THEN [reg EXCEPT ![a] = IncrementWorkload(@)] ELSE reg

\* AgentRegistry.decrement_agent_workload
RegDecrement(reg, a) ==
    IF a \in DOMAIN reg THEN [reg EXCEPT ![a] = DecrementWorkload(@)] ELSE reg

\* AgentRegistry.update_agent_status
RegUpdateStatus(reg, a, status) ==
    IF a \in DOMAIN reg THEN [reg EXCEPT ![a].status = status] ELSE reg

\* AgentRegistry.record_task_completion
RegRecordTaskCompletion(reg, a, success) ==
    IF a \in DOMAIN reg
    THEN IF success
         THEN [reg EXCEPT ![a] = DecrementWorkload([@ EXCEPT !.total_tasks_completed = @ + 1])]
         ELSE [reg EXCEPT ![a] = DecrementWorkload([@ EXCEPT !.total_tasks_failed = @ + 1])]
    ELSE reg

\* -------------------------------------------------------------- MessageBus
Message(sender, receiver, msg_type, task_id, payload) ==
    [sender |-> sender, receiver |-> receiver, msg_type |-> msg_type,
     content |-> [task_id |-> task_id, payload |-> payload]]

\* a registration that creates no mailbox
BusRegisterNone(qs, a) == qs

\* MessageBus.register_agent
BusRegister(qs, a) == IF a \notin DOMAIN qs THEN (a :> <<>>) @@ qs ELSE qs

\* MessageBus._add_to_history
AddToHistory(h, m) ==
    IF Len(h) + 1 > max_history_size THEN Tail(Append(h, m)) ELSE Append(h, m)

\* a put at the head of the mailbox
EnqueueFront(qs, m) ==
    [BusRegister(qs, m.receiver) EXCEPT ![m.receiver] = <<m>> \o @]

\* send, lines 104-113: an unknown receiver gets a mailbox, then Queue.put
Enqueue(qs, m) ==
    [BusRegister(qs, m.receiver) EXCEPT ![m.receiver] = Append(@, m)]

\* MessageBus.send
BusSend(m) ==
    /\ queues' = Enqueue(queues, m)
    /\ stats' = [stats EXCEPT !.messages_sent = @ + 1]
    /\ message_history' = AddToHistory(message_history, m)

\* MessageBus.receive of a mailbox that holds a message
BusReceive(a) ==
    /\ queues' = [queues EXCEPT ![a] = Tail(@)]
    /\ stats' = [stats EXCEPT !.messages_received = @ + 1]
    /\ UNCHANGED message_history

\* ------------------------------------------------------------ SharedMemory
\* a version that does not look at the stored entry
NewVersionOne(d, key) == 1

\* write, lines 138-143
NewVersion(d, key) == IF key \in DOMAIN d THEN d[key].version + 1 ELSE 1

\* SharedMemory.write, no observers and no persistence
MemWrite(d, key, value, author) ==
    LET new_version == NewVersion(d, key)
    IN  (key :> [value |-> value, author |-> author, version |-> new_version]) @@ d

\* --------------------------------------------------------- DependencyGraph
\* the three fields of a DependencyGraph, as one value
TheGraph == [graph |-> graph, reverse_graph |-> reverse_graph, nodes |-> nodes]

SetGraph(G) ==
    /\ graph' = G.graph
    /\ reverse_graph' = G.reverse_graph
    /\ nodes' = G.nodes

\* if node_id not in self.graph: self.graph[node_id] = set()
WithKey(g, n) == IF n \in DOMAIN g THEN g ELSE (n :> {}) @@ g

\* DependencyGraph.add_node
GAddNode(G, node_id) ==
    [graph |-> WithKey(G.graph, node_id),
     reverse_graph |-> WithKey(G.reverse_graph, node_id),
     nodes |-> G.nodes \cup {node_id}]

\* one order in which a for loop visits a set; the outcome of the search
\* below is the same for every order
RECURSIVE SetToSeq(_)
SetToSeq(S) ==
    IF S = {} THEN <<>>
    ELSE LET x == CHOOSE x \in S : TRUE IN <<x>> \o SetToSeq(S \ {x})

\* the while loop of _would_create_cycle
RECURSIVE CycleSearch(_, _, _, _)
CycleSearch(g, from_node, queue_, visited) ==
    IF queue_ = <<>> THEN FALSE
    ELSE LET current == Head(queue_)
         IN  IF current = from_node THEN TRUE
             ELSE IF current \in visited
             THEN CycleSearch(g, from_node, Tail(queue_), visited)
             ELSE CycleSearch(g, from_node,
                              Tail(queue_) \o SetToSeq(IF current \in DOMAIN g THEN g[current] ELSE {}),
                              visited \cup {current})

\* a check that accepts every edge
WouldCreateCycleNever(G, from_node, to_node) == FALSE

\* DependencyGraph._would_create_cycle
WouldCreateCycle(G, from_node, to_node) == CycleSearch(G.graph, from_node, <<to_node>>, {})

\* DependencyGraph.add_dependency: whether it raised CircularDependencyError,
\* and the graph it leaves
GAddDependency(G, node_id, depends_on) ==
    LET G2 == GAddNode(GAddNode(G, node_id), depends_on)
    IN  IF WouldCreateCycle(G2, node_id, depends_on)
        THEN [raised |-> TRUE, G |-> G2]
        ELSE [raised |-> FALSE,
              G |-> [graph |-> [G2.graph EXCEPT ![node_id] = @ \cup {depends_on}],
                     reverse_graph |-> [G2.reverse_graph EXCEPT ![depends_on] = @ \cup {node_id}],
                     nodes |-> G2.nodes]]

\* a removal that forgets the reverse edge
GRemoveForward(G, node_id, depends_on) ==
    [graph |-> IF node_id \in DOMAIN G.graph
               THEN [G.graph EXCEPT ![node_id] = @ \ {depends_on}]
               ELSE G.graph,
     reverse_graph |-> G.reverse_graph,
     nodes |-> G.nodes]

\* DependencyGraph.remove_dependency
GRemoveDependency(G, node_id, depends_on) ==
    [graph |-> IF node_id \in DOMAIN G.graph
               THEN [G.graph EXCEPT ![node_id] = @ \ {depends_on}]
               ELSE G.graph,
     reverse_graph |-> IF depends_on \in DOMAIN G.reverse_graph
                       THEN [G.reverse_graph EXCEPT ![depends_on] = @ \ {node_id}]
                       ELSE G.reverse_graph,
     nodes |-> G.nodes]

\* DependencyGraph.get_dependencies: self.graph.get(node_id, set()).copy()
GetDependencies(G, node_id) == IF node_id \in DOMAIN G.graph THEN G.graph[node_id] ELSE {}

\* DependencyGraph.get_dependents
GetDependents(G, node_id) ==
    IF node_id \in DOMAIN G.reverse_graph THEN G.reverse_graph[node_id] ELSE {}

\* DependencyGraph.clear
GClear(G) == [graph |-> <<>>, reverse_graph |-> <<>>, nodes |-> {}]

\* an in-degree that counts no dependency
InDegreeZero(g, node) == 0

\* len(self.graph[node])
InDegree(g, node) == Cardinality(g[node])

\* the while loop of topological_sort: the results it can build, one for each
\* order in which the for loop visits self.reverse_graph[node]
RECURSIVE Kahn(_, _, _, _)
Kahn(rg, in_degree, queue_, result) ==
    IF queue_ = <<>> THEN {result}
    ELSE LET node == Head(queue_)
             deg == [d \in DOMAIN in_degree |->
                        IF d \in rg[node] THEN in_degree[d] - 1 ELSE in_degree[d]]
             zero == {d \in rg[node] : deg[d] = 0}
         IN  UNION {Kahn(rg, deg, Tail(queue_) \o s, Append(result, node)) : s \in Perms(zero)}

\* DependencyGraph.topological_sort: the outcomes it can have (the initial
\* deque lists the nodes of in-degree 0 in the iteration order of a set)
TopologicalSort(G) ==
    LET in_degree == [n \in G.nodes |-> InDegree(G.graph, n)]
        starts == Perms({n \in G.nodes : in_degree[n] = 0})
        built == UNION {Kahn(G.reverse_graph, in_degree, q, <<>>) : q \in starts}
    IN  {[raised |-> Len(r) # Cardinality(G.nodes), result |-> r] : r \in built}

\* a readiness test that passes every node
CanExecuteNodeAlways(g, node_id, done) == TRUE

\* DependencyGraph.can_execute
CanExecuteNode(g, node_id, done) ==
    (IF node_id \in DOMAIN g THEN g[node_id] ELSE {}) \subseteq done

\* the while loop of get_execution_layers
RECURSIVE Layers(_, _, _, _)
Layers(g, remaining, done, layers) ==
    IF remaining = {} THEN {[raised |-> FALSE, result |-> layers]}
    ELSE LET ready == {n \in remaining : CanExecuteNode(g, n, done)}
         IN  IF ready = {} THEN {[raised |-> TRUE, result |-> layers]}
             ELSE UNION {Layers(g, remaining \ ready, done \cup ready, Append(layers, r))
                            : r \in Perms(ready)}

\* DependencyGraph.get_execution_layers: the outcomes it can have
GetExecutionLayers(G) == Layers(G.graph, G.nodes, {}, <<>>)

\* for dep_id in dependencies: self.dependency_graph.add_dependency(task_id, dep_id)
RECURSIVE AddDependencies(_, _, _)
AddDependencies(G, node_id, deps) ==
    IF deps = <<>> THEN G
    ELSE AddDependencies(GAddDependency(G, node_id, Head(deps)).G, node_id, Tail(deps))

\* ------------------------------------------------------------ Orchestrator
\* the agent_id of a newly constructed agent: a fresh uuid4
NextAgentId == Cardinality(DOMAIN agents) + 1

\* Orchestrator.register_agent, of an agent not registered before
OrchRegisterAgent ==
    /\ pc = "idle"
    /\ \E a \in {NextAgentId} \cap AgentIds, ty \in AgentTypes :
           /\ RegRegister(a, ty, {"research"})
           /\ working' = (a :> <<>>) @@ working
           /\ queues' = BusRegister(queues, a)
    /\ UNCHANGED <<stats, message_history, data, pc, max_iterations, iteration,
                   results, cur, lastExec, dequeues>>
    /\ UNCHANGED qvars
    /\ UNCHANGED <<lastReg, gvars, auxvars>>

\* the dependency lists given to Orchestrator.add_task: none, or one ID
OrchDepChoices == {{}} \cup {{d} : d \in DOMAIN tasks \cup {UnknownId}}

\* Orchestrator.add_task: the task joins the queue, then the graph (the ID of
\* a new task is fresh, so no add_dependency of it finds a cycle)
OrchAddTask ==
    /\ pc = "idle"
    /\ Cardinality(DOMAIN tasks) < MaxOrchTasks
    /\ \E p \in OrchPriorities, ty \in TaskTypes, deps \in OrchDepChoices :
           /\ QAddTask(p, ty, deps)
           /\ SetGraph(AddDependencies(GAddNode(TheGraph, NextTaskId), NextTaskId,
                                       SetToSeq(deps)))
    /\ UNCHANGED <<regvars, lastGraph, dispatchvars>>

\* Orchestrator.execute_all(max_iterations) up to its while loop
ExecuteAll ==
    /\ pc = "idle"
    /\ \E m \in 1..MaxIterations : max_iterations' = m
    /\ iteration' = 0
    /\ results' = [total_tasks |-> Cardinality(DOMAIN tasks), completed |-> <<>>,
                   failed |-> <<>>, cancelled |-> <<>>]
    /\ pc' = "loop"
    /\ UNCHANGED <<agents, agents_by_type, queues, stats, message_history, data,
                   working, cur, lastExec, dequeues>>
    /\ UNCHANGED qvars
    /\ UNCHANGED <<capvars, gvars, auxvars>>

\* an iteration that leaves the counter as it is
NextIterationStuck(i) == i

\* iteration += 1
NextIteration(i) == i + 1

\* one iteration of the while loop, up to the call of message_bus.receive in
\* execute_task (or to the end of the iteration when it does not get there)
LoopStep ==
    /\ pc = "loop"
    /\ iteration < max_iterations
    /\ iteration' = NextIteration(iteration)
    /\ QGetNextTask
    /\ dequeues' = dequeues + 1
    /\ LET task == IF queue # <<>> THEN heappop(queue, Prio).item ELSE NoTask
       IN  IF task = NoTask
           THEN /\ pc' = IF pending = {} THEN "exit" ELSE "loop"
                /\ UNCHANGED <<agents, agents_by_type, queues, stats, message_history,
                               data, working, max_iterations, results, cur, lastExec>>
           ELSE IF FindAvailableAgent(tasks[task].agent_type) = {}
           THEN \* execute_task returns False: no agent
                /\ results' = [results EXCEPT !.failed = Append(@, task)]
                /\ lastExec' = [task |-> task, agent |-> NoAgent, outcome |-> "no_agent",
                                workload_before |-> 0, failed_before |-> 0]
                /\ pc' = "loop"
                /\ UNCHANGED <<agents, agents_by_type, queues, stats, message_history,
                               data, working, max_iterations, cur>>
           ELSE \E a \in FindAvailableAgent(tasks[task].agent_type) :
                /\ agents' = RegIncrement(agents, a)
                /\ data' = MemWrite(data, <<"task", task>>, "task_dict", OrchestratorId)
                /\ BusSend(Message(OrchestratorId, a, "task", task, "input_data"))
                /\ cur' = [task |-> task, agent |-> a]
                /\ lastExec' = [task |-> task, agent |-> a, outcome |-> "dispatched",
                                workload_before |-> agents[a].workload,
                                failed_before |-> agents[a].total_tasks_failed]
                /\ pc' = "receive"
                /\ UNCHANGED <<agents_by_type, working, max_iterations, results>>
    /\ UNCHANGED <<capvars, gvars, auxvars>>

\* MessageBus.receive("orchestrator", timeout): the mailbox check
ReceiveCheck ==
    /\ pc = "receive"
    /\ IF OrchestratorId \notin DOMAIN queues
       THEN \* ValueError leaves receive, execute_task and execute_all
            /\ pc' = "raised"
            /\ lastExec' = [lastExec EXCEPT !.outcome = "raised"]
       ELSE /\ pc' = "wait"
            /\ UNCHANGED lastExec
    /\ UNCHANGED <<agents, agents_by_type, queues, stats, message_history, data,
                   working, max_iterations, iteration, results, cur, dequeues>>
    /\ UNCHANGED qvars
    /\ UNCHANGED <<capvars, gvars, auxvars>>

\* execute_task after a "result" reply
TaskSucceeded(response) ==
    /\ QCompleteTask(cur.task, response.content.payload)
    /\ agents' = RegRecordTaskCompletion(agents, cur.agent, TRUE)
    /\ data' = MemWrite(data, <<"result", cur.task>>, response.content.payload, cur.agent)
    /\ results' = [results EXCEPT !.completed = Append(@, cur.task)]
    /\ lastExec' = [lastExec EXCEPT !.outcome = "True"]

\* execute_task after no reply or a reply of another type
TaskFailed(error) ==
    /\ QFailTask(cur.task, error)
    /\ agents' = RegRecordTaskCompletion(agents, cur.agent, FALSE)
    /\ results' = [results EXCEPT !.failed = Append(@, cur.task)]
    /\ lastExec' = [lastExec EXCEPT !.outcome = "False"]
    /\ UNCHANGED data

\* the queue.get of receive returns a message: the rest of execute_task and
\* of the iteration
ReceiveMessage ==
    /\ pc = "wait"
    /\ queues[OrchestratorId] # <<>>
    /\ LET response == Head(queues[OrchestratorId])
       IN  /\ BusReceive(OrchestratorId)
           /\ IF response.msg_type = "result"
              THEN TaskSucceeded(response)
              ELSE TaskFailed("Unexpected response")
    /\ pc' = "loop"
    /\ UNCHANGED <<agents_by_type, working, max_iterations, iteration, cur, dequeues>>
    /\ UNCHANGED <<capvars, gvars, auxvars>>

\* the queue.get of receive times out: receive returns None
ReceiveTimeout ==
    /\ pc = "wait"
    /\ queues[OrchestratorId] = <<>>
    /\ TaskFailed("Agent did not respond in time")
    /\ pc' = "loop"
    /\ UNCHANGED <<agents_by_type, queues, stats, message_history, working,
                   max_iterations, iteration, cur, dequeues>>
    /\ UNCHANGED <<capvars, gvars, auxvars>>

\* list(self.task_queue.pending): the set in one of its iteration orders
CancelledList == Perms(pending)

\* execute_all after its loop: the break, or the iteration cap
Finish ==
    /\ \/ pc = "exit"
       \/ pc = "loop" /\ iteration >= max_iterations
    /\ \E s \in CancelledList : results' = [results EXCEPT !.cancelled = s]
    /\ pc' = "returned"
    /\ UNCHANGED <<agents, agents_by_type, queues, stats, message_history, data,
                   working, max_iterations, iteration, cur, lastExec, dequeues>>
    /\ UNCHANGED qvars
    /\ UNCHANGED <<capvars, gvars, auxvars>>

\* ------------------------------------------------------------- the workers
\* a worker takes the next message of its mailbox (BaseAgent.receive_message)
AgentReceive ==
    /\ \E a \in DOMAIN agents :
           /\ working[a] = <<>>
           /\ a \in DOMAIN queues
           /\ queues[a] # <<>>
           /\ working' = [working EXCEPT ![a] = <<Head(queues[a])>>]
           /\ BusReceive(a)
    /\ UNCHANGED <<agents, agents_by_type, data, pc, max_iterations, iteration,
                   results, cur, lastExec, dequeues>>
    /\ UNCHANGED qvars
    /\ UNCHANGED <<capvars, gvars, auxvars>>

\* a worker answers the message it took (BaseAgent.send_message)
AgentAnswer(a, msg_type) ==
    /\ working[a] # <<>>
    /\ BusSend(Message(a, OrchestratorId, msg_type, working[a][1].content.task_id, "r1"))
    /\ working' = [working EXCEPT ![a] = <<>>]
    /\ UNCHANGED <<agents, agents_by_type, data, pc, max_iterations, iteration,
                   results, cur, lastExec, dequeues>>
    /\ UNCHANGED qvars
    /\ UNCHANGED <<capvars, gvars, auxvars>>

AgentSendResult == \E a \in DOMAIN agents : AgentAnswer(a, "result")

AgentSendError == \E a \in DOMAIN agents : AgentAnswer(a, "error")

\* a fresh orchestrator, agents and tasks registered, then one execute_all
\* run with workers that answer, answer with an error, or stay silent
OrchNext ==
    \/ OrchRegisterAgent
    \/ OrchAddTask
    \/ ExecuteAll
    \/ LoopStep
    \/ ReceiveCheck
    \/ ReceiveMessage
    \/ ReceiveTimeout
    \/ Finish
    \/ AgentReceive
    \/ AgentSendResult
    \/ AgentSendError

OrchSpec == Init /\ [][OrchNext]_vars

\* the orchestrator thread keeps running: a step of execute_all that can be
\* taken is taken (queue.get with a timeout returns)
OrchFairSpec ==
    /\ OrchSpec
    /\ WF_vars(LoopStep)
    /\ WF_vars(ReceiveCheck)
    /\ WF_vars(ReceiveMessage)
    /\ WF_vars(ReceiveTimeout)
    /\ WF_vars(Finish)

\* the same run with workers that answer every task message with a result
\* before the timeout of the orchestrator's receive
E2ENext ==
    \/ OrchRegisterAgent
    \/ OrchAddTask
    \/ ExecuteAll
    \/ LoopStep
    \/ ReceiveCheck
    \/ ReceiveMessage
    \/ Finish
    \/ AgentReceive
    \/ AgentSendResult

E2ESpec == Init /\ [][E2ENext]_vars

\* message_bus.register_agent("orchestrator") by the caller, before the run
OrchRegisterMailbox ==
    /\ pc = "idle"
    /\ queues' = BusRegister(queues, OrchestratorId)
    /\ UNCHANGED <<agents, agents_by_type, stats, message_history, data, working, pc,
                   max_iterations, iteration, results, cur, lastExec, dequeues>>
    /\ UNCHANGED qvars
    /\ UNCHANGED <<capvars, gvars, auxvars>>

\* the run of OrchSpec on a bus where the caller may have registered the
\* orchestrator's mailbox: a worker may answer after receive has timed out
LateNext ==
    \/ OrchRegisterMailbox
    \/ OrchRegisterAgent
    \/ OrchAddTask
    \/ ExecuteAll
    \/ LoopStep
    \/ ReceiveCheck
    \/ ReceiveMessage
    \/ ReceiveTimeout
    \/ Finish
    \/ AgentReceive
    \/ AgentSendResult
    \/ AgentSendError

LateSpec == Init /\ [][LateNext]_vars

\* tasks of every priority: add_task with at most one dependency,
\* get_next_task and complete_task of dispatched tasks
PrioAddTask ==
    /\ Cardinality(DOMAIN tasks) < MaxTasks
    /\ \E p \in Priorities, deps \in {d \in DepChoices : Cardinality(d) <= 1 /\ UnknownId \notin d} :
           QAddTask(p, "Researcher", deps)
    /\ UNCHANGED ovars

PrioNext == PrioAddTask \/ GetNextTask \/ CompleteInProgress

PrioSpec == Init /\ [][PrioNext]_vars

\* equal-priority tasks: add_task, get_next_task and complete_task of
\* dispatched tasks, with tasks of two priorities and at most one dependency
FifoAddTask ==
    /\ Cardinality(DOMAIN tasks) < MaxFifoTasks
    /\ \E p \in {HIGH, MEDIUM}, deps \in {d \in DepChoices : Cardinality(d) <= 1 /\ UnknownId \notin d} :
           QAddTask(p, "Researcher", deps)
    /\ UNCHANGED ovars

FifoNext == FifoAddTask \/ GetNextTask \/ CompleteInProgress

FifoSpec == Init /\ [][FifoNext]_vars

\* ---------------------------------------------- SharedMemory driven directly
\* a lock that any thread may take at any time
GlobalLockAlways(t) == TRUE

\* with self._global_lock: thread t can take the RLock
GlobalLockFree(t) == global_lock \in {NoThread, t}

\* an except clause that catches nothing
ExceptCaughtNone(outcome) == FALSE

\* _notify_observers, line 314: except Exception
ExceptCaught(outcome) == outcome = "Exception"

\* json.dump of a value: a tuple is written as an array, like a list
ToJson(value) ==
    IF value[1] \in {"list", "tuple"} THEN <<"array", value[2]>>
    ELSE <<"string", value[2]>>

\* json.load of a value: an array is read as a list
FromJson(j) == IF j[1] = "array" THEN <<"list", j[2]>> ELSE <<"str", j[2]>>

\* _save_to_disk: the file holds key -> entry.to_dict() as JSON
SaveToDisk(d) ==
    <<[k \in DOMAIN d |->
          [author |-> d[k].author, value |-> ToJson(d[k].value), version |-> d[k].version]]>>

\* _load_from_disk: MemoryEntry.from_dict of every entry of the file
LoadFromDisk(file) ==
    IF file = NoFile THEN <<>>
    ELSE [k \in DOMAIN file[1] |->
             [value |-> FromJson(file[1][k].value), author |-> file[1][k].author,
              version |-> file[1][k].version]]

\* if self.enable_persistence: self._save_to_disk()
Persist(d) == IF enable_persistence THEN SaveToDisk(d) ELSE disk

Without(f, k) == [x \in DOMAIN f \ {k} |-> f[x]]

ObserversOf(key) == IF key \in DOMAIN observers THEN observers[key] ELSE <<>>

\* the last call that ended: result is what delete returned (TRUE for a call
\* that returns no value), version the version written or read (0: none)
NoteMemCall(op, t, key, raised, result, version, called) ==
    lastMem' = [op |-> op, thread |-> t, key |-> key, raised |-> raised,
                result |-> result, version |-> version, called |-> called]

\* everything but the blackboard
NotBoard == <<qvars, regvars, gvars, busvars, mailvars, working, runvars, lastAgg>>

\* SharedMemory(enable_persistence, persistence_path) on the path of the file
Construct(enable) ==
    /\ \A t \in Threads : mpc[t] = "idle"
    /\ data' = IF enable THEN LoadFromDisk(disk) ELSE <<>>
    /\ global_lock' = NoThread
    /\ key_locks' = <<>>
    /\ observers' = <<>>
    /\ mem_stats' = [deletes |-> 0, notifications_sent |-> 0, reads |-> 0, writes |-> 0]
    /\ enable_persistence' = enable
    /\ NoteMemCall("construct", NoThread, None, FALSE, TRUE, 0, <<>>)
    /\ UNCHANGED <<disk, mpc, mloc, notified, NotBoard>>

\* the locals of a call of write or delete by a thread: list is the observer
\* list that _notify_observers iterates, i the index of the callback it is at,
\* outer the call (its position and locals) whose callback made this call
Frame(op, key, value, depth, outer) ==
    [op |-> op, key |-> key, value |-> value, new_version |-> 0, i |-> 0,
     called |-> <<>>, list |-> <<>>, depth |-> depth, outer |-> outer]

\* the call of thread t returns: to the callback that made it, with the
\* global lock still held, or to the thread's caller, releasing the lock
Return(t) ==
    IF mloc[t].depth = 0
    THEN /\ global_lock' = NoThread
         /\ mpc' = [mpc EXCEPT ![t] = "idle"]
         /\ mloc' = [mloc EXCEPT ![t] = NoCall]
    ELSE /\ global_lock' = global_lock
         /\ mpc' = [mpc EXCEPT ![t] = mloc[t].outer[1]]
         /\ mloc' = [mloc EXCEPT ![t] = mloc[t].outer[2]]

\* with self._key_locks[key]: the Lock of the key is not held, by any thread
KeyLockFree(key) == key \in DOMAIN key_locks => key_locks[key] = NoThread

\* write, line 131: the thread takes the global lock
WriteEnter(t, key, value) ==
    /\ mpc[t] = "idle"
    /\ mem_stats.writes < MaxWrites
    /\ GlobalLockFree(t)
    /\ global_lock' = t
    /\ mpc' = [mpc EXCEPT ![t] = "w_key"]
    /\ mloc' = [mloc EXCEPT ![t] = Frame("write", key, value, 0, <<>>)]
    /\ UNCHANGED <<data, key_locks, observers, mem_stats, enable_persistence, disk,
                   notified, lastMem, NotBoard>>

\* write, lines 133-136: the key's lock is created if missing, then taken
WriteLockKey(t) ==
    /\ mpc[t] = "w_key"
    /\ KeyLockFree(mloc[t].key)
    /\ key_locks' = (mloc[t].key :> t) @@ key_locks
    /\ mpc' = [mpc EXCEPT ![t] = "w_version"]
    /\ UNCHANGED <<data, global_lock, observers, mem_stats, enable_persistence, disk,
                   mloc, notified, lastMem, NotBoard>>

\* write, lines 138-143
WriteVersion(t) ==
    /\ mpc[t] = "w_version"
    /\ mloc' = [mloc EXCEPT ![t].new_version = NewVersion(data, mloc[t].key)]
    /\ mpc' = [mpc EXCEPT ![t] = "w_store"]
    /\ UNCHANGED <<data, global_lock, key_locks, observers, mem_stats,
                   enable_persistence, disk, notified, lastMem, NotBoard>>

\* write, lines 146-157
WriteStore(t) ==
    /\ mpc[t] = "w_store"
    /\ data' = (mloc[t].key :> [value |-> mloc[t].value, author |-> t,
                                version |-> mloc[t].new_version]) @@ data
    /\ mem_stats' = [mem_stats EXCEPT !.writes = @ + 1]
    /\ mloc' = [mloc EXCEPT ![t].i = 1, ![t].list = ObserversOf(mloc[t].key)]
    /\ mpc' = [mpc EXCEPT ![t] = "w_notify"]
    /\ UNCHANGED <<global_lock, key_locks, observers, enable_persistence, disk,
                   notified, lastMem, NotBoard>>

\* the with blocks of write are left: the key's lock (if delete has not
\* removed it) and the global lock are released
ReleaseWrite(t) ==
    /\ key_locks' = IF mloc[t].key \in DOMAIN key_locks
                    THEN [key_locks EXCEPT ![mloc[t].key] = NoThread]
                    ELSE key_locks
    /\ Return(t)

\* _notify_observers, lines 310-315: the next callback of the list is called;
\* an exception it raises is caught and the loop goes on
WriteNotify(t) ==
    /\ mpc[t] = "w_notify"
    /\ mloc[t].i <= Len(mloc[t].list)
    /\ \E outcome \in Outcomes :
           LET callback == mloc[t].list[mloc[t].i]
               call == <<mloc[t].key, callback, mloc[t].new_version, t, outcome>>
           IN  /\ notified' = Append(notified, call)
               /\ IF outcome = "returns"
                  THEN /\ mem_stats' = [mem_stats EXCEPT !.notifications_sent = @ + 1]
                       /\ mloc' = [mloc EXCEPT ![t].i = @ + 1,
                                               ![t].called = Append(@, <<callback, outcome>>)]
                       /\ UNCHANGED <<global_lock, key_locks, mpc, lastMem>>
                  ELSE IF ExceptCaught(outcome)
                  THEN /\ mloc' = [mloc EXCEPT ![t].i = @ + 1,
                                               ![t].called = Append(@, <<callback, outcome>>)]
                       /\ UNCHANGED <<global_lock, key_locks, mpc, mem_stats, lastMem>>
                  ELSE /\ ReleaseWrite(t)
                       /\ NoteMemCall("write", t, mloc[t].key, TRUE, FALSE, 0,
                                      Append(mloc[t].called, <<callback, outcome>>))
                       /\ UNCHANGED mem_stats
    /\ UNCHANGED <<data, observers, enable_persistence, disk, NotBoard>>

\* write, lines 168-169 and the end of the with blocks
WriteExit(t) ==
    /\ mpc[t] = "w_notify"
    /\ mloc[t].i > Len(mloc[t].list)
    /\ disk' = Persist(data)
    /\ ReleaseWrite(t)
    /\ NoteMemCall("write", t, mloc[t].key, FALSE, TRUE, mloc[t].new_version, mloc[t].called)
    /\ UNCHANGED <<data, observers, mem_stats, enable_persistence, notified, NotBoard>>

\* read: the value or the default, under the global lock
ReadCall(t, key) ==
    /\ mpc[t] = "idle"
    /\ GlobalLockFree(t)
    /\ key \in DOMAIN data => mem_stats.reads < MaxReads
    /\ mem_stats' = IF key \in DOMAIN data
                    THEN [mem_stats EXCEPT !.reads = @ + 1] ELSE mem_stats
    /\ NoteMemCall("read", t, key, FALSE, TRUE,
                   IF key \in DOMAIN data THEN data[key].version ELSE 0, <<>>)
    /\ UNCHANGED <<data, global_lock, key_locks, observers, enable_persistence, disk,
                   mpc, mloc, notified, NotBoard>>

\* delete of a key without an entry: False
DeleteMissing(t, key) ==
    /\ mpc[t] = "idle"
    /\ GlobalLockFree(t)
    /\ key \notin DOMAIN data
    /\ NoteMemCall("delete", t, key, FALSE, FALSE, 0, <<>>)
    /\ UNCHANGED <<data, global_lock, key_locks, observers, mem_stats,
                   enable_persistence, disk, mpc, mloc, notified, NotBoard>>

\* delete, lines 222-224: the global lock is taken and the entry removed
DeleteEnter(t, key) ==
    /\ mpc[t] = "idle"
    /\ GlobalLockFree(t)
    /\ key \in DOMAIN data
    /\ global_lock' = t
    /\ data' = Without(data, key)
    /\ mpc' = [mpc EXCEPT ![t] = "d_lock"]
    /\ mloc' = [mloc EXCEPT ![t] = Frame("delete", key, <<"str", 1>>, 0, <<>>)]
    /\ UNCHANGED <<key_locks, observers, mem_stats, enable_persistence, disk,
                   notified, lastMem, NotBoard>>

\* delete, lines 227-228
DeleteKeyLock(t) ==
    /\ mpc[t] = "d_lock"
    /\ key_locks' = Without(key_locks, mloc[t].key)
    /\ mpc' = [mpc EXCEPT ![t] = "d_observers"]
    /\ UNCHANGED <<data, global_lock, observers, mem_stats, enable_persistence, disk,
                   mloc, notified, lastMem, NotBoard>>

\* delete, lines 231-232
DeleteObservers(t) ==
    /\ mpc[t] = "d_observers"
    /\ observers' = Without(observers, mloc[t].key)
    /\ mpc' = [mpc EXCEPT ![t] = "d_exit"]
    /\ UNCHANGED <<data, global_lock, key_locks, mem_stats, enable_persistence, disk,
                   mloc, notified, lastMem, NotBoard>>

\* delete, lines 235-243
DeleteExit(t) ==
    /\ mpc[t] = "d_exit"
    /\ mem_stats' = [mem_stats EXCEPT !.deletes = @ + 1]
    /\ disk' = Persist(data)
    /\ Return(t)
    /\ NoteMemCall("delete", t, mloc[t].key, FALSE, TRUE, 0, <<>>)
    /\ UNCHANGED <<data, key_locks, observers, enable_persistence, notified, NotBoard>>

\* clear, under the global lock
ClearCall(t) ==
    /\ mpc[t] = "idle"
    /\ GlobalLockFree(t)
    /\ data' = <<>>
    /\ key_locks' = <<>>
    /\ observers' = <<>>
    /\ disk' = Persist(<<>>)
    /\ NoteMemCall("clear", t, None, FALSE, TRUE, 0, <<>>)
    /\ UNCHANGED <<global_lock, mem_stats, enable_persistence, mpc, mloc, notified, NotBoard>>

\* subscribe, under the global lock
MemSubscribeCall(t, key, callback) ==
    /\ mpc[t] = "idle"
    /\ GlobalLockFree(t)
    /\ Len(ObserversOf(key)) < MaxObservers
    /\ observers' = (key :> Append(ObserversOf(key), callback)) @@ observers
    /\ NoteMemCall("subscribe", t, key, FALSE, TRUE, 0, <<>>)
    /\ UNCHANGED <<data, global_lock, key_locks, mem_stats, enable_persistence, disk,
                   mpc, mloc, notified, NotBoard>>

\* unsubscribe, under the global lock: list.remove of the first occurrence
MemUnsubscribeCall(t, key, callback) ==
    /\ mpc[t] = "idle"
    /\ GlobalLockFree(t)
    /\ observers' = IF key \in DOMAIN observers
                    THEN [observers EXCEPT ![key] = RemoveFirst(@, callback)]
                    ELSE observers
    /\ NoteMemCall("unsubscribe", t, key, FALSE, TRUE, 0, <<>>)
    /\ UNCHANGED <<data, global_lock, key_locks, mem_stats, enable_persistence, disk,
                   mpc, mloc, notified, NotBoard>>

\* thread t is in _notify_observers, inside the callback at index i, which
\* may call the blackboard before it returns (WriteNotify)
InCallback(t) ==
    /\ mpc[t] = "w_notify"
    /\ mloc[t].i <= Len(mloc[t].list)
    /\ mloc[t].depth < MaxDepth

\* the callback calls write: its thread holds the global RLock and takes it
\* again, then goes for the lock of the key
CallbackWrite(t, key, value) ==
    /\ InCallback(t)
    /\ mem_stats.writes < MaxWrites
    /\ GlobalLockFree(t)
    /\ mpc' = [mpc EXCEPT ![t] = "w_key"]
    /\ mloc' = [mloc EXCEPT ![t] = Frame("write", key, value, mloc[t].depth + 1,
                                        <<"w_notify", mloc[t]>>)]
    /\ UNCHANGED <<data, global_lock, key_locks, observers, mem_stats, enable_persistence,
                   disk, notified, lastMem, NotBoard>>

\* the callback calls read
CallbackRead(t, key) ==
    /\ InCallback(t)
    /\ GlobalLockFree(t)
    /\ key \in DOMAIN data => mem_stats.reads < MaxReads
    /\ mem_stats' = IF key \in DOMAIN data
                    THEN [mem_stats EXCEPT !.reads = @ + 1] ELSE mem_stats
    /\ NoteMemCall("read", t, key, FALSE, TRUE,
                   IF key \in DOMAIN data THEN data[key].version ELSE 0, <<>>)
    /\ UNCHANGED <<data, global_lock, key_locks, observers, enable_persistence, disk,
                   mpc, mloc, notified, NotBoard>>

\* the callback calls delete
CallbackDelete(t, key) ==
    /\ InCallback(t)
    /\ GlobalLockFree(t)
    /\ IF key \notin DOMAIN data
       THEN /\ NoteMemCall("delete", t, key, FALSE, FALSE, 0, <<>>)
            /\ UNCHANGED <<data, mpc, mloc>>
       ELSE /\ data' = Without(data, key)
            /\ mpc' = [mpc EXCEPT ![t] = "d_lock"]
            /\ mloc' = [mloc EXCEPT ![t] = Frame("delete", key, <<"str", 1>>,
                                                mloc[t].depth + 1, <<"w_notify", mloc[t]>>)]
            /\ UNCHANGED lastMem
    /\ UNCHANGED <<global_lock, key_locks, observers, mem_stats, enable_persistence,
                   disk, notified, NotBoard>>

\* the steps of a write that has taken the global lock
WriteStep ==
    \E t \in Threads :
        \/ WriteLockKey(t)
        \/ WriteVersion(t)
        \/ WriteStore(t)
        \/ WriteNotify(t)
        \/ WriteExit(t)

\* the steps of a delete that has removed the entry
DeleteStep ==
    \E t \in Threads :
        \/ DeleteKeyLock(t)
        \/ DeleteObservers(t)
        \/ DeleteExit(t)

AllIdle == \A t \in Threads : mpc[t] = "idle"

\* subscribe of a callback that is not in the key's list
SubscribeOnce(t, key, callback) ==
    /\ \A i \in 1..Len(ObserversOf(key)) : ObserversOf(key)[i] # callback
    /\ MemSubscribeCall(t, key, callback)

\* one thread writes, deletes and clears; one callback observes
MainThread == 1

VersionSubscribe == \E key \in MemKeys : SubscribeOnce(MainThread, key, 1)
VersionWrite == \E key \in MemKeys, value \in BoardValues : WriteEnter(MainThread, key, value)
VersionRead == \E key \in MemKeys : ReadCall(MainThread, key)
VersionDelete ==
    \E key \in MemKeys : DeleteMissing(MainThread, key) \/ DeleteEnter(MainThread, key)
VersionClear == ClearCall(MainThread)

VersionNext ==
    \/ VersionSubscribe
    \/ VersionWrite
    \/ WriteStep
    \/ VersionRead
    \/ VersionDelete
    \/ DeleteStep
    \/ VersionClear

VersionSpec == Init /\ [][VersionNext]_vars

\* callbacks subscribe to keys that were never written, then threads write
WritersSubscribe ==
    \E t \in Threads, key \in MemKeys, callback \in ObserverIds :
        /\ key \notin DOMAIN data
        /\ SubscribeOnce(t, key, callback)
WritersWrite ==
    \E t \in Threads, key \in MemKeys, value \in BoardValues : WriteEnter(t, key, value)

WritersNext ==
    \/ WritersSubscribe
    \/ WritersWrite
    \/ WriteStep

WritersSpec == Init /\ [][WritersNext]_vars

\* one thread subscribes and unsubscribes callbacks of one key and writes it
ObservedKey == "k1"

ObserverSubscribe ==
    \E callback \in ObserverIds : MemSubscribeCall(MainThread, ObservedKey, callback)
ObserverUnsubscribe ==
    \E callback \in ObserverIds : MemUnsubscribeCall(MainThread, ObservedKey, callback)
ObserverWrite ==
    \E value \in BoardValues :
        /\ Len(notified) + Len(ObserversOf(ObservedKey)) <= MaxObservers
        /\ WriteEnter(MainThread, ObservedKey, value)

ObserverNext ==
    \/ ObserverSubscribe
    \/ ObserverUnsubscribe
    \/ ObserverWrite
    \/ WriteStep

ObserverSpec == Init /\ [][ObserverNext]_vars

\* threads write, read and delete one key that one callback observes
DeleteSubscribe == \E t \in Threads : SubscribeOnce(t, ObservedKey, 1)
DeleteWrite == \E t \in Threads, value \in BoardValues : WriteEnter(t, ObservedKey, value)
DeleteRead == \E t \in Threads : ReadCall(t, ObservedKey)
DeleteCall ==
    \E t \in Threads : DeleteMissing(t, ObservedKey) \/ DeleteEnter(t, ObservedKey)

DeleteNext ==
    \/ DeleteSubscribe
    \/ DeleteWrite
    \/ WriteStep
    \/ DeleteRead
    \/ DeleteCall
    \/ DeleteStep

DeleteSpec == Init /\ [][DeleteNext]_vars

\* one thread writes keys whose callback calls write, read or delete
ReentrantSubscribe == \E key \in MemKeys : SubscribeOnce(MainThread, key, 1)
ReentrantWrite == \E key \in MemKeys, value \in BoardValues : WriteEnter(MainThread, key, value)
ReentrantCallbackWrite ==
    \E key \in MemKeys, value \in BoardValues : CallbackWrite(MainThread, key, value)
ReentrantCallbackRead == \E key \in MemKeys : CallbackRead(MainThread, key)
ReentrantCallbackDelete == \E key \in MemKeys : CallbackDelete(MainThread, key)

ReentrantNext ==
    \/ ReentrantSubscribe
    \/ ReentrantWrite
    \/ WriteStep
    \/ ReentrantCallbackWrite
    \/ ReentrantCallbackRead
    \/ ReentrantCallbackDelete
    \/ DeleteStep

ReentrantSpec == Init /\ [][ReentrantNext]_vars

\* one thread writes, deletes and clears a blackboard that is constructed
\* again and again with persistence on the same path
PersistConstruct == Construct(TRUE)
PersistSubscribe == SubscribeOnce(MainThread, ObservedKey, 1)
PersistWrite ==
    \E value \in PyValues :
        /\ NewVersion(data, ObservedKey) <= MaxWrites
        /\ Len(notified) + Len(ObserversOf(ObservedKey)) <= MaxObservers
        /\ WriteEnter(MainThread, ObservedKey, value)
PersistDelete ==
    DeleteMissing(MainThread, ObservedKey) \/ DeleteEnter(MainThread, ObservedKey)
PersistClear == ClearCall(MainThread)

PersistNext ==
    \/ PersistConstruct
    \/ PersistSubscribe
    \/ PersistWrite
    \/ WriteStep
    \/ PersistDelete
    \/ DeleteStep
    \/ PersistClear

PersistSpec == Init /\ [][PersistNext]_vars

\* ------------------------------------------------ MessageBus driven directly
\* a Message as a caller of the bus constructs it; id stands for the uuid
BusMessage(sender, receiver, msg_type, id) ==
    [content |-> "c", id |-> id, msg_type |-> msg_type,
     receiver |-> receiver, sender |-> sender]

\* the uuid of the next Message constructed
NextMessageId == Len(sentLog) + 1

\* broadcast, line 166: self.subscriptions.get(msg_type, set())
SubscribersOfAny(msg_type) == UNION {subscriptions[ty] : ty \in DOMAIN subscriptions}

Subscribers(msg_type) ==
    IF msg_type \in DOMAIN subscriptions THEN subscriptions[msg_type] ELSE {}

NoteBusCall(op, a, msg, raised, created, result) ==
    lastBus' = [agent_id |-> a, created |-> created, msg |-> msg, op |-> op,
                raised |-> raised, result |-> result]

\* everything but the bus
NotBus == <<qvars, regvars, gvars, data, working, runvars, boardvars, lastAgg>>

BusRegisterCall(a) ==
    /\ queues' = BusRegister(queues, a)
    /\ NoteBusCall("register_agent", a, <<>>, FALSE, a \notin DOMAIN queues, <<>>)
    /\ UNCHANGED <<stats, message_history, subscriptions, sentLog, recvLog, NotBus>>

BusUnregisterCall(a) ==
    /\ queues' = [b \in DOMAIN queues \ {a} |-> queues[b]]
    /\ subscriptions' = [ty \in DOMAIN subscriptions |-> subscriptions[ty] \ {a}]
    /\ NoteBusCall("unregister_agent", a, <<>>, FALSE, FALSE, <<>>)
    /\ UNCHANGED <<stats, message_history, sentLog, recvLog, NotBus>>

SendCall(m) ==
    /\ Len(sentLog) < MaxMessages
    /\ BusSend(m)
    /\ sentLog' = Append(sentLog, m)
    /\ NoteBusCall("send", m.receiver, <<m>>, FALSE, m.receiver \notin DOMAIN queues, <<>>)
    /\ UNCHANGED <<subscriptions, recvLog, NotBus>>

\* receive with a timeout: ValueError without a mailbox, None from an empty
\* mailbox, else the message at its head
ReceiveCall(a) ==
    /\ IF a \notin DOMAIN queues
       THEN /\ NoteBusCall("receive", a, <<>>, TRUE, FALSE, <<>>)
            /\ UNCHANGED <<busvars, recvLog>>
       ELSE IF queues[a] = <<>>
       THEN /\ NoteBusCall("receive", a, <<>>, FALSE, FALSE, <<>>)
            /\ UNCHANGED <<busvars, recvLog>>
       ELSE /\ BusReceive(a)
            /\ recvLog' = Append(recvLog, Head(queues[a]))
            /\ NoteBusCall("receive", a, <<>>, FALSE, FALSE, <<Head(queues[a])>>)
    /\ UNCHANGED <<subscriptions, sentLog, NotBus>>

\* the copies broadcast sends, one per subscriber in the order of the loop
Copies(message, order_) ==
    [i \in DOMAIN order_ |->
        BusMessage(message.sender, order_[i], message.msg_type, NextMessageId + i - 1)]

RECURSIVE EnqueueAll(_, _)
EnqueueAll(qs, msgs) ==
    IF msgs = <<>> THEN qs ELSE EnqueueAll(Enqueue(qs, Head(msgs)), Tail(msgs))

RECURSIVE AddAllToHistory(_, _)
AddAllToHistory(h, msgs) ==
    IF msgs = <<>> THEN h ELSE AddAllToHistory(AddToHistory(h, Head(msgs)), Tail(msgs))

BroadcastCall(message) ==
    LET subscribers == Subscribers(message.msg_type)
    IN  /\ Len(sentLog) + Cardinality(subscribers) <= MaxMessages
        /\ IF subscribers = {}
           THEN /\ NoteBusCall("broadcast", NoAgent, <<message>>, FALSE, FALSE, <<>>)
                /\ UNCHANGED <<busvars, sentLog>>
           ELSE \E order_ \in Perms(subscribers) :
                    LET copies == Copies(message, order_)
                    IN  /\ queues' = EnqueueAll(queues, copies)
                        /\ stats' = [stats EXCEPT
                                         !.messages_sent = @ + Len(copies),
                                         !.broadcasts_sent = @ + 1]
                        /\ message_history' = AddAllToHistory(message_history, copies)
                        /\ sentLog' = sentLog \o copies
                        /\ NoteBusCall("broadcast", NoAgent, <<message>>, FALSE, FALSE, copies)
        /\ UNCHANGED <<subscriptions, recvLog, NotBus>>

SubscribeCall(a, msg_type) ==
    /\ subscriptions' =
           (msg_type :> (Subscribers(msg_type) \cup {a})) @@ subscriptions
    /\ NoteBusCall("subscribe", a, <<>>, FALSE, FALSE, <<>>)
    /\ UNCHANGED <<busvars, sentLog, recvLog, NotBus>>

\* subscriptions is a defaultdict: the lookup creates the entry of msg_type
UnsubscribeCall(a, msg_type) ==
    /\ subscriptions' =
           (msg_type :> (Subscribers(msg_type) \ {a})) @@ subscriptions
    /\ NoteBusCall("unsubscribe", a, <<>>, FALSE, FALSE, <<>>)
    /\ UNCHANGED <<busvars, sentLog, recvLog, NotBus>>

ClearQueueCall(a) ==
    /\ queues' = IF a \in DOMAIN queues THEN [queues EXCEPT ![a] = <<>>] ELSE queues
    /\ NoteBusCall("clear_queue", a, <<>>, FALSE, FALSE, <<>>)
    /\ UNCHANGED <<stats, message_history, subscriptions, sentLog, recvLog, NotBus>>

ResetCall ==
    /\ queues' = <<>>
    /\ subscriptions' = <<>>
    /\ message_history' = <<>>
    /\ stats' = [broadcasts_sent |-> 0, messages_received |-> 0, messages_sent |-> 0]
    /\ NoteBusCall("reset", NoAgent, <<>>, FALSE, FALSE, <<>>)
    /\ UNCHANGED <<sentLog, recvLog, NotBus>>

BusRegisterAgent == \E a \in BusAgents : BusRegisterCall(a)
BusUnregisterAgent == \E a \in BusAgents : BusUnregisterCall(a)
Send ==
    \E receiver \in BusAgents :
        SendCall(BusMessage(OrchestratorId, receiver, "question", NextMessageId))
Receive == \E a \in BusAgents : ReceiveCall(a)
Broadcast ==
    \E msg_type \in MsgTypes :
        BroadcastCall(BusMessage(OrchestratorId, NoAgent, msg_type, 0 - NextMessageId))
Subscribe == \E a \in BusAgents, msg_type \in MsgTypes : SubscribeCall(a, msg_type)
Unsubscribe == \E a \in BusAgents, msg_type \in MsgTypes : UnsubscribeCall(a, msg_type)
ClearQueue == \E a \in BusAgents : ClearQueueCall(a)

\* registrations, subscriptions, sends, broadcasts and receives
MailNext ==
    \/ BusRegisterAgent
    \/ Subscribe
    \/ Send
    \/ Broadcast
    \/ Receive

MailSpec == Init /\ [][MailNext]_vars

\* every call of the bus
BusNext ==
    \/ BusRegisterAgent
    \/ BusUnregisterAgent
    \/ Subscribe
    \/ Unsubscribe
    \/ Send
    \/ Broadcast
    \/ Receive
    \/ ClearQueue
    \/ ResetCall

BusSpec == Init /\ [][BusNext]_vars

\* ---------------------------------------------------- Message, to and from
\* the senders, receivers, msg_type values, contents and metadata (a dict as
\* its items) of the messages converted; a timestamp is <<seconds, microsecond>>
MessageParties == {"a1", "a2"}
AllMsgTypes == {"task", "result", "question", "notification", "error"}
Contents == {"c", "d"}
Metadatas == {<<>>, <<<<"k", 1>>>>}
Timestamps == {<<1, 0>>, <<1, 5>>, <<2, 0>>}

\* datetime.isoformat: the fraction is written only if microsecond is not 0
IsoFormat(ts) == IF ts[2] = 0 THEN <<"iso", ts[1]>> ELSE <<"iso", ts[1], ts[2]>>

\* datetime.fromisoformat: a missing fraction is microsecond 0
FromIsoFormat(text) == IF Len(text) = 2 THEN <<text[2], 0>> ELSE <<text[2], text[3]>>

\* Message.to_dict
MessageToDict(m) ==
    [id |-> m.id, sender |-> m.sender, receiver |-> m.receiver, msg_type |-> m.msg_type,
     content |-> m.content, metadata |-> m.metadata, timestamp |-> IsoFormat(m.timestamp)]

\* a reconstruction from the four required fields only: metadata, id and
\* timestamp take their defaults
MessageFromRequired(d) ==
    [sender |-> d.sender, receiver |-> d.receiver, msg_type |-> d.msg_type,
     content |-> d.content, metadata |-> <<>>, id |-> NextMessageId + 1,
     timestamp |-> <<0, 0>>]

\* Message.from_dict: cls(**data) after the timestamp is parsed
MessageFromDict(d) ==
    [sender |-> d.sender, receiver |-> d.receiver, msg_type |-> d.msg_type,
     content |-> d.content, metadata |-> d.metadata, id |-> d.id,
     timestamp |-> FromIsoFormat(d.timestamp)]

\* Message(sender, receiver, msg_type, content, metadata, timestamp=...) with
\* the id of the default factory, then Message.from_dict(message.to_dict())
RoundTripCall(sender, receiver, msg_type, content, metadata, timestamp) ==
    LET message == [sender |-> sender, receiver |-> receiver, msg_type |-> msg_type,
                    content |-> content, metadata |-> metadata, id |-> NextMessageId,
                    timestamp |-> timestamp]
    IN  /\ NoteBusCall("from_dict", NoAgent, <<message>>, FALSE, FALSE,
                       <<MessageFromDict(MessageToDict(message))>>)
        /\ UNCHANGED <<busvars, subscriptions, sentLog, recvLog, NotBus>>

RoundTrip ==
    \E sender \in MessageParties, receiver \in MessageParties, msg_type \in AllMsgTypes,
       content \in Contents, metadata \in Metadatas, timestamp \in Timestamps :
        RoundTripCall(sender, receiver, msg_type, content, metadata, timestamp)

MessageNext == RoundTrip

MessageSpec == Init /\ [][MessageNext]_vars

\* ---------------------------------------------------------- ResultAggregator
\* an AgentResult is <<value, confidence>>; what aggregate returns is
\* <<"None">>, <<"value", the value>> or <<"list", the list>>; results_ is
\* the parameter results of the code
ResultChoices == {<<1, 0>>, <<1, 1>>, <<2, 0>>, <<2, 1>>}
Strategies == {"ensemble", "best", "first"}

\* ResultAggregator._ensemble
Ensemble(results_) == <<"list", [i \in 1..Len(results_) |-> results_[i][1]]>>

\* ResultAggregator._best: max(results, key=confidence) is the first maximum
Best(results_) ==
    LET i == CHOOSE i \in 1..Len(results_) :
                 /\ \A j \in 1..Len(results_) : results_[j][2] <= results_[i][2]
                 /\ \A j \in 1..(i - 1) : results_[j][2] < results_[i][2]
    IN  <<"value", results_[i][1]>>

\* ResultAggregator._first
First(results_) == <<"value", results_[1][1]>>

\* ResultAggregator.aggregate for the strategies ENSEMBLE, BEST and FIRST
Aggregate(results_, strategy) ==
    IF results_ = <<>> THEN <<"None">>
    ELSE IF Len(results_) = 1 THEN <<"value", results_[1][1]>>
    ELSE IF strategy = "ensemble" THEN Ensemble(results_)
    ELSE IF strategy = "best" THEN Best(results_)
    ELSE First(results_)

AggregateCall(results_, strategy) ==
    /\ lastAgg' = [op |-> "aggregate", results |-> results_, strategy |-> strategy,
                   returned |-> Aggregate(results_, strategy)]
    /\ UNCHANGED <<qvars, regvars, gvars, busvars, data, working, runvars, mailvars, boardvars>>

AggregateAny ==
    \E n \in 0..MaxResults : \E results_ \in [1..n -> ResultChoices], strategy \in Strategies :
        AggregateCall(results_, strategy)

AggregatorNext == AggregateAny

AggregatorSpec == Init /\ [][AggregatorNext]_vars

\* --------------------------------------------- AgentRegistry driven directly
\* the workload of agent a before a call, NoAgent when a is not registered
WorkloadOf(a) == IF a \in DOMAIN agents THEN agents[a].workload ELSE NoAgent

NoteRegCall(op, a, key, raised, result) ==
    lastReg' = [op |-> op, agent_id |-> a, key |-> key, was |-> WorkloadOf(a),
                raised |-> raised, result |-> result]

RegisterCall(a, ty, caps) ==
    /\ RegRegister(a, ty, caps)
    /\ NoteRegCall("register", a, ty, FALSE, {a})
    /\ UNCHANGED <<qvars, gvars, dispatchvars>>

UnregisterCall(a) ==
    /\ IF a \in DOMAIN agents
       THEN RegUnregister(a)
       ELSE UNCHANGED <<agents, agents_by_type, agents_by_capability>>
    /\ NoteRegCall("unregister", a, None, FALSE, {})
    /\ UNCHANGED <<qvars, gvars, dispatchvars>>

IncrementCall(a) ==
    /\ a \in DOMAIN agents => agents[a].workload < MaxWorkload
    /\ agents' = RegIncrement(agents, a)
    /\ NoteRegCall("increment_agent_workload", a, None, FALSE, {})
    /\ UNCHANGED <<agents_by_type, agents_by_capability, qvars, gvars, dispatchvars>>

DecrementCall(a) ==
    /\ agents' = RegDecrement(agents, a)
    /\ NoteRegCall("decrement_agent_workload", a, None, FALSE, {})
    /\ UNCHANGED <<agents_by_type, agents_by_capability, qvars, gvars, dispatchvars>>

RecordCall(a, success) ==
    /\ a \in DOMAIN agents =>
           agents[a].total_tasks_completed + agents[a].total_tasks_failed < MaxRecords
    /\ agents' = RegRecordTaskCompletion(agents, a, success)
    /\ NoteRegCall("record_task_completion", a, None, FALSE, {})
    /\ UNCHANGED <<agents_by_type, agents_by_capability, qvars, gvars, dispatchvars>>

UpdateStatusCall(a, status) ==
    /\ agents' = RegUpdateStatus(agents, a, status)
    /\ NoteRegCall("update_agent_status", a, status, FALSE, {})
    /\ UNCHANGED <<agents_by_type, agents_by_capability, qvars, gvars, dispatchvars>>

FindByTypeCall(ty) ==
    /\ IF FindByTypeRaises(ty)
       THEN NoteRegCall("find_by_type", NoAgent, ty, TRUE, {})
       ELSE NoteRegCall("find_by_type", NoAgent, ty, FALSE, FindByType(ty))
    /\ UNCHANGED <<agents, agents_by_type, agents_by_capability, qvars, gvars, dispatchvars>>

FindByCapabilityCall(c) ==
    /\ IF FindByCapabilityRaises(c)
       THEN NoteRegCall("find_by_capability", NoAgent, c, TRUE, {})
       ELSE NoteRegCall("find_by_capability", NoAgent, c, FALSE, FindByCapability(c))
    /\ UNCHANGED <<agents, agents_by_type, agents_by_capability, qvars, gvars, dispatchvars>>

\* find_available_agent(agent_type=ty): result is {} for None
FindAvailableCall(ty) ==
    /\ IF FindByTypeRaises(ty)
       THEN NoteRegCall("find_available_agent", NoAgent, ty, TRUE, {})
       ELSE IF FindAvailableAgent(ty) = {}
            THEN NoteRegCall("find_available_agent", NoAgent, ty, FALSE, {})
            ELSE \E a \in FindAvailableAgent(ty) :
                     NoteRegCall("find_available_agent", NoAgent, ty, FALSE, {a})
    /\ UNCHANGED <<agents, agents_by_type, agents_by_capability, qvars, gvars, dispatchvars>>

\* the workload and status calls on the agents of one type
StatusRegister == \E a \in AgentIds, ty \in AgentTypes : RegisterCall(a, ty, {"research"})
StatusIncrement == \E a \in AgentIds : IncrementCall(a)
StatusDecrement == \E a \in AgentIds : DecrementCall(a)
StatusRecord == \E a \in AgentIds, success \in BOOLEAN : RecordCall(a, success)
StatusUpdate == \E a \in AgentIds, status \in AgentStatuses : UpdateStatusCall(a, status)
StatusFind == \E ty \in AgentTypes : FindAvailableCall(ty)

StatusNext ==
    \/ StatusRegister
    \/ StatusIncrement
    \/ StatusDecrement
    \/ StatusRecord
    \/ StatusUpdate
    \/ StatusFind

StatusSpec == Init /\ [][StatusNext]_vars

\* registrations, re-registrations and unregistrations under two types and
\* every choice of capabilities, with the lookups
IndexRegister ==
    \E a \in RegAgentIds, ty \in RegTypes, caps \in CapChoices : RegisterCall(a, ty, caps)
IndexUnregister == \E a \in RegAgentIds : UnregisterCall(a)
IndexIncrement == \E a \in RegAgentIds : IncrementCall(a)
IndexDecrement == \E a \in RegAgentIds : DecrementCall(a)
IndexUpdate == \E a \in RegAgentIds, status \in AgentStatuses : UpdateStatusCall(a, status)
IndexFindByType == \E ty \in RegTypes : FindByTypeCall(ty)
IndexFindByCapability == \E c \in Capabilities : FindByCapabilityCall(c)
IndexFindAvailable == \E ty \in RegTypes : FindAvailableCall(ty)

IndexNext ==
    \/ IndexRegister
    \/ IndexUnregister
    \/ IndexIncrement
    \/ IndexDecrement
    \/ IndexUpdate
    \/ IndexFindByType
    \/ IndexFindByCapability
    \/ IndexFindAvailable

IndexSpec == Init /\ [][IndexNext]_vars

\* ------------------------------------------- DependencyGraph driven directly
NodeIds == 1..MaxNodes

NoteGraphCall(op, node_id, depends_on, raised, result) ==
    lastGraph' = [op |-> op, node_id |-> node_id, depends_on |-> depends_on,
                  raised |-> raised, result |-> result]

AddNodeCall(n) ==
    /\ SetGraph(GAddNode(TheGraph, n))
    /\ NoteGraphCall("add_node", n, NoNode, FALSE, <<>>)
    /\ UNCHANGED <<qvars, regvars, dispatchvars>>

AddNode == \E n \in NodeIds : AddNodeCall(n)

AddDependencyCall(n, d) ==
    /\ LET r == GAddDependency(TheGraph, n, d)
       IN  /\ SetGraph(r.G)
           /\ NoteGraphCall("add_dependency", n, d, r.raised, <<>>)
    /\ UNCHANGED <<qvars, regvars, dispatchvars>>

AddDependency == \E n, d \in NodeIds : AddDependencyCall(n, d)

RemoveDependencyCall(n, d) ==
    /\ SetGraph(GRemoveDependency(TheGraph, n, d))
    /\ NoteGraphCall("remove_dependency", n, d, FALSE, <<>>)
    /\ UNCHANGED <<qvars, regvars, dispatchvars>>

RemoveDependency == \E n, d \in NodeIds : RemoveDependencyCall(n, d)

CallTopologicalSort ==
    /\ \E r \in TopologicalSort(TheGraph) :
           NoteGraphCall("topological_sort", NoNode, NoNode, r.raised, r.result)
    /\ UNCHANGED <<graph, reverse_graph, nodes, qvars, regvars, dispatchvars>>

CallGetExecutionLayers ==
    /\ \E r \in GetExecutionLayers(TheGraph) :
           NoteGraphCall("get_execution_layers", NoNode, NoNode, r.raised, r.result)
    /\ UNCHANGED <<graph, reverse_graph, nodes, qvars, regvars, dispatchvars>>

GraphClearCall ==
    /\ SetGraph(GClear(TheGraph))
    /\ NoteGraphCall("clear", NoNode, NoNode, FALSE, <<>>)
    /\ UNCHANGED <<qvars, regvars, dispatchvars>>

\* any sequence of the calls that change a DependencyGraph
AdjacencyNext ==
    \/ AddNode
    \/ AddDependency
    \/ RemoveDependency
    \/ GraphClearCall

AdjacencySpec == Init /\ [][AdjacencyNext]_vars

\* any sequence of DependencyGraph calls
GraphNext ==
    \/ AddNode
    \/ AddDependency
    \/ RemoveDependency
    \/ CallTopologicalSort
    \/ CallGetExecutionLayers

GraphSpec == Init /\ [][GraphNext]_vars

\* ------------------------------------------------------------------ claims
Statuses == {PENDING, IN_PROGRESS, COMPLETED, FAILED, CANCELLED}

TypeOK ==
    /\ pending \subseteq DOMAIN tasks
    /\ Range(queue) \subseteq DOMAIN tasks
    /\ \A t \in DOMAIN tasks : tasks[t].status \in Statuses
    /\ pc \in {"idle", "loop", "receive", "wait", "exit", "returned", "raised"}

\* C1: with complete_task / fail_task called on IN_PROGRESS tasks only, a
\* task that get_next_task has returned (it is IN_PROGRESS, or was and is now
\* COMPLETED or FAILED) has every ID of its dependencies naming a task whose
\* status is COMPLETED.
DispatchSafety ==
    \A t \in DOMAIN tasks :
        tasks[t].status # PENDING =>
            \A d \in tasks[t].dependencies :
                d \in DOMAIN tasks /\ tasks[d].status = COMPLETED

\* a task with two dependencies has just been returned by get_next_task
DispatchSafetyWitness ==
    /\ lastOp.op = "get_next_task"
    /\ lastOp.id # NoTask
    /\ Cardinality(tasks[lastOp.id].dependencies) = 2
    /\ tasks[lastOp.id].status = IN_PROGRESS

\* C2, the gate: a PENDING task is an entry of the ready queue exactly when
\* complete_task has completed every one of its dependencies.
DependencyGate ==
    \A t \in DOMAIN tasks :
        tasks[t].status = PENDING =>
            (t \in Range(queue) <=> \A d \in tasks[t].dependencies : d \in completed)

\* C2, the service: a get_next_task that does not return a ready PENDING task
\* returns a task of at least its priority and leaves it in the ready queue.
ReleasedIsServed ==
    \A t \in DOMAIN tasks :
        (/\ tasks[t].status = PENDING
         /\ t \in Range(queue)
         /\ lastOp'.op = "get_next_task"
         /\ queue' # queue
         /\ lastOp'.id # t)
        => /\ Prio[lastOp'.id] <= Prio[t]
           /\ t \in Range(queue')
           /\ tasks'[t].status = PENDING

\* C2: a PENDING task with unmet dependencies is not retrievable; once
\* complete_task has been called for all its dependencies, in any order, it is
\* in the ready queue, where get_next_task passes it over only for tasks of
\* at least its priority until it returns it.
DependencyRelease == []DependencyGate /\ [][ReleasedIsServed]_vars

\* task 3 depends on tasks 1 and 2; 2 was completed first, then 1, and the
\* last complete_task put 3 in the ready queue
DependencyReleaseWitness ==
    /\ lastOp = [op |-> "complete_task", id |-> 1]
    /\ 3 \in DOMAIN tasks
    /\ tasks[3].dependencies = {1, 2}
    /\ tasks[3].status = PENDING
    /\ tasks[2].status = COMPLETED
    /\ 3 \in Range(queue)

\* C4: the task get_next_task returns has a numeric priority no greater than
\* that of any task left in the ready queue, whatever the order of the
\* add_task calls, and its status is IN_PROGRESS.
PriorityOrder ==
    (lastOp.op = "get_next_task" /\ lastOp.id # NoTask) =>
        /\ \A i \in DOMAIN queue : Prio[lastOp.id] <= Prio[queue[i]]
        /\ tasks[lastOp.id].status = IN_PROGRESS
        /\ lastOp.id \in in_progress

\* the task added last was returned first, ahead of two ready tasks of two
\* different lower priorities
PriorityOrderWitness ==
    /\ lastOp = [op |-> "get_next_task", id |-> 3]
    /\ Len(queue) = 2
    /\ Prio[3] < Prio[queue[1]]
    /\ Prio[queue[1]] < Prio[queue[2]]

\* C5: among the ready tasks of equal priority, get_next_task returns the one
\* that was put in the ready queue first.
FifoStep ==
    (lastOp'.op = "get_next_task" /\ queue' # queue) =>
        \A i \in DOMAIN order :
            (order[i] # lastOp'.id /\ Prio[order[i]] = Prio[lastOp'.id]) =>
                \E j \in 1..(i - 1) : order[j] = lastOp'.id

FifoTieBreak == [][FifoStep]_vars

\* task A (1): HIGH, no dependencies; task B (2): MEDIUM, depends on A; one
\* registered agent, of the type both tasks require
EndToEndScenario ==
    /\ DOMAIN tasks = {1, 2}
    /\ tasks[1].priority = HIGH /\ tasks[1].dependencies = {}
    /\ tasks[2].priority = MEDIUM /\ tasks[2].dependencies = {1}
    /\ tasks[1].agent_type = tasks[2].agent_type
    /\ Cardinality(DOMAIN agents) = 1
    /\ \A a \in DOMAIN agents : agents[a].agent_type = tasks[1].agent_type

\* control has left execute_all, by its return or by an exception
RunOver == pc \in {"returned", "raised"}

\* C3: in the scenario, with workers that answer every task message with a
\* result in time, B is not dispatched before A is COMPLETED, and the run of
\* execute_all (with room for both tasks) ends with A and B COMPLETED and an
\* empty cancelled list.
EndToEndRun ==
    EndToEndScenario =>
        /\ tasks[2].status # PENDING => tasks[1].status = COMPLETED
        /\ (RunOver /\ max_iterations >= 2) =>
               /\ tasks[1].status = COMPLETED
               /\ tasks[2].status = COMPLETED
               /\ results.cancelled = <<>>
               /\ pc = "returned"

\* C6: after an execute_task call that found no agent for the task, the task
\* is PENDING again: in the pending set, not in_progress, not failed.
NoAgentSkipsTask ==
    lastExec.outcome = "no_agent" =>
        /\ tasks[lastExec.task].status = PENDING
        /\ lastExec.task \in pending
        /\ lastExec.task \notin in_progress
        /\ lastExec.task \notin failed

\* one task without dependencies, and no agent of its type registered
ZeroAgentScenario ==
    /\ DOMAIN tasks = {1}
    /\ tasks[1].dependencies = {}
    /\ FindByType(tasks[1].agent_type) = {}

\* C7: in the zero-agent scenario the task is still PENDING after a dispatch
\* cycle, and when execute_all has returned its ID is in the cancelled list
\* and not in the failed list.
ZeroAgentCancelled ==
    (ZeroAgentScenario /\ iteration >= 1) =>
        /\ tasks[1].status = PENDING
        /\ pc = "returned" =>
               /\ 1 \in Range(results.cancelled)
               /\ 1 \notin Range(results.failed)

\* C8: when an agent was selected and control has left execute_task without a
\* "result" reply, execute_task has returned False (it did not raise), the
\* task is FAILED with an error reason, and the agent's total_tasks_failed is
\* one more than before the call.
DispatchFailurePath ==
    (lastExec.agent # NoAgent /\ lastExec.outcome \in {"False", "raised"}) =>
        /\ lastExec.outcome = "False"
        /\ tasks[lastExec.task].status = FAILED
        /\ tasks[lastExec.task].error # None
        /\ agents[lastExec.agent].total_tasks_failed = lastExec.failed_before + 1

\* C9: when control has left an execute_task call that selected an agent,
\* the agent's workload is what it was before the call.
WorkloadBalance ==
    (lastExec.agent # NoAgent /\ lastExec.outcome \in {"True", "False", "raised"}) =>
        agents[lastExec.agent].workload = lastExec.workload_before

\* C10, the bound: get_next_task is called once per iteration and at most
\* max_iterations times, and the cancelled list execute_all returns holds
\* each ID of the pending set once and nothing else.
RunBound ==
    /\ dequeues = iteration
    /\ dequeues <= max_iterations
    /\ pc = "returned" =>
           /\ Range(results.cancelled) = pending
           /\ Len(results.cancelled) = Cardinality(pending)

\* C10, termination: control leaves a started execute_all
RunTerminates == (pc = "loop") ~> RunOver

\* C10: execute_all(max_iterations) terminates after at most max_iterations
\* dequeue attempts, also with pending tasks that never become ready or find
\* no agent, and returns as cancelled exactly the pending set at loop exit.
BoundedRunLoop == []RunBound /\ RunTerminates

\* the cap ended the run: every iteration was used and a task that can never
\* become ready is reported cancelled
BoundedRunLoopWitness ==
    /\ pc = "returned"
    /\ max_iterations >= 2
    /\ dequeues = max_iterations
    /\ results.cancelled # <<>>
    /\ \E t \in pending : UnknownId \in tasks[t].dependencies

Terminal == {COMPLETED, FAILED, CANCELLED}

\* C11: once a task's status is COMPLETED, FAILED or CANCELLED, no TaskQueue
\* operation (add_task, get_next_task, complete_task, fail_task, cancel_task,
\* on this task or on another) changes its status, result or error.
TerminalFinal ==
    [][\A t \in DOMAIN tasks :
           tasks[t].status \in Terminal =>
               /\ tasks'[t].status = tasks[t].status
               /\ tasks'[t].result = tasks[t].result
               /\ tasks'[t].error = tasks[t].error]_vars

\* d is reached from n along one or more dependency edges
Reaches(g, n, d) ==
    \E k \in 1..Cardinality(DOMAIN g) :
        \E path \in [1..(k + 1) -> DOMAIN g] :
            /\ path[1] = n
            /\ path[k + 1] = d
            /\ \A i \in 1..k : path[i + 1] \in g[path[i]]

\* C12: after any sequence of add_node, add_dependency (accepted or rejected)
\* and remove_dependency calls, no node of the graph reaches itself along
\* dependency edges: there is no cycle and no self-dependency.
Acyclicity == \A n \in DOMAIN graph : ~Reaches(graph, n, n)

\* an add_dependency that would have closed a cycle through two other edges
\* has just been rejected
AcyclicityWitness ==
    /\ lastGraph.op = "add_dependency"
    /\ lastGraph.raised
    /\ lastGraph.node_id # lastGraph.depends_on
    /\ lastGraph.node_id \notin graph[lastGraph.depends_on]
    /\ Reaches(graph, lastGraph.depends_on, lastGraph.node_id)

\* C13: add_dependency(node, dependsOn) raises whenever dependsOn reaches node
\* or is node, and a call that raises leaves the node set, the dependency
\* edges and the reverse edges as they were.
RejectionStep ==
    \A n, d \in NodeIds :
        AddDependencyCall(n, d) =>
            /\ (n = d \/ (d \in DOMAIN graph /\ n \in DOMAIN graph /\ Reaches(graph, d, n)))
                   => lastGraph'.raised
            /\ lastGraph'.raised =>
                   /\ nodes' = nodes
                   /\ graph' = graph
                   /\ reverse_graph' = reverse_graph

CycleRejection == [][RejectionStep]_vars

Index(seq, x) == CHOOSE i \in DOMAIN seq : seq[i] = x

\* C14: topological_sort returns without raising a list that holds every node
\* exactly once and every dependency at a smaller index than its dependent.
TopologicalOrder ==
    lastGraph.op = "topological_sort" =>
        /\ ~lastGraph.raised
        /\ Len(lastGraph.result) = Cardinality(nodes)
        /\ Range(lastGraph.result) = nodes
        /\ \A n \in nodes : \A d \in graph[n] :
               Index(lastGraph.result, d) < Index(lastGraph.result, n)

\* a sort of three nodes, one of them with two dependencies
TopologicalOrderWitness ==
    /\ lastGraph.op = "topological_sort"
    /\ Len(lastGraph.result) = 3
    /\ \E n \in nodes : Cardinality(graph[n]) = 2

\* the layers that hold node n
LayersOf(layers, n) == {i \in DOMAIN layers : n \in Range(layers[i])}

\* C15: get_execution_layers puts every node in exactly one layer, at one
\* position, each node in a later layer than every one of its dependencies,
\* and the nodes without dependencies in the first layer.
ExecutionLayers ==
    lastGraph.op = "get_execution_layers" =>
        /\ ~lastGraph.raised
        /\ \A n \in nodes :
               /\ Cardinality(LayersOf(lastGraph.result, n)) = 1
               /\ graph[n] = {} => LayersOf(lastGraph.result, n) = {1}
               /\ \A d \in graph[n] : \A i \in LayersOf(lastGraph.result, n) :
                      \A j \in LayersOf(lastGraph.result, d) : j < i
        /\ \A i \in DOMAIN lastGraph.result :
               /\ Range(lastGraph.result[i]) \subseteq nodes
               /\ \A j, k \in DOMAIN lastGraph.result[i] :
                      lastGraph.result[i][j] = lastGraph.result[i][k] => j = k

\* two layers, the first of them with two nodes
ExecutionLayersWitness ==
    /\ lastGraph.op = "get_execution_layers"
    /\ Len(lastGraph.result) = 2
    /\ Len(lastGraph.result[1]) = 2
    /\ \E n \in nodes : Cardinality(graph[n]) = 2

\* C16: every registered agent that is not offline is idle exactly when its
\* workload is 0 and busy exactly when its workload is greater than 0.
StatusWorkload ==
    \A a \in DOMAIN agents :
        agents[a].status # "offline" =>
            /\ agents[a].status = "idle" <=> agents[a].workload = 0
            /\ agents[a].status = "busy" <=> agents[a].workload > 0

WorkloadCalls ==
    {"increment_agent_workload", "decrement_agent_workload", "record_task_completion"}

\* C17: an increment_agent_workload, decrement_agent_workload or
\* record_task_completion call leaves an offline agent offline, and
\* find_available_agent does not return an offline agent.
OfflineStep ==
    /\ lastReg'.op \in WorkloadCalls =>
           \A a \in DOMAIN agents :
               agents[a].status = "offline" =>
                   a \in DOMAIN agents' /\ agents'[a].status = "offline"
    /\ lastReg'.op = "find_available_agent" =>
           \A a \in lastReg'.result : agents[a].status # "offline"

OfflineExclusion == [][OfflineStep]_vars

\* C18: every registered agent's workload is an integer >= 0, whatever the
\* increment, decrement, record_task_completion and (re-)register calls made.
WorkloadNonNegative == \A a \in DOMAIN agents : agents[a].workload \in Nat

\* a decrement or a recorded completion has just reached an agent whose
\* workload was already 0, after an earlier recorded completion
WorkloadNonNegativeWitness ==
    /\ lastReg.op \in {"decrement_agent_workload", "record_task_completion"}
    /\ lastReg.was = 0
    /\ lastReg.agent_id \in DOMAIN agents
    /\ agents[lastReg.agent_id].workload = 0
    /\ agents[lastReg.agent_id].total_tasks_completed + agents[lastReg.agent_id].total_tasks_failed = 2

\* the registered agents of type ty whose status is idle or busy
Eligible(ty) ==
    {a \in DOMAIN agents :
        agents[a].agent_type = ty /\ agents[a].status \in {"idle", "busy"}}

\* C19: find_available_agent(agent_type) returns a registered agent of that
\* type with status idle or busy whose workload is minimal among those, and
\* returns nothing exactly when there is none.
LeastLoaded ==
    lastReg.op = "find_available_agent" =>
        /\ ~lastReg.raised
        /\ lastReg.result = {} <=> Eligible(lastReg.key) = {}
        /\ \A a \in lastReg.result :
               /\ a \in Eligible(lastReg.key)
               /\ \A b \in Eligible(lastReg.key) : agents[a].workload <= agents[b].workload

\* C20: after unregister(agent_id) the ID is in no by-ID, by-type or
\* by-capability index, and find_by_type, find_by_capability and
\* find_available_agent neither return it nor raise because of it.
UnregisterClears ==
    lastReg.op = "unregister" =>
        /\ lastReg.agent_id \notin DOMAIN agents
        /\ \A ty \in DOMAIN agents_by_type : lastReg.agent_id \notin agents_by_type[ty]
        /\ \A c \in DOMAIN agents_by_capability :
               lastReg.agent_id \notin agents_by_capability[c]

\* the messages of a log addressed to r, in the order of the log
To(log, r) == LET ToR(m) == m.receiver = r IN SelectSeq(log, ToR)

Mailbox(r) == IF r \in DOMAIN queues THEN queues[r] ELSE <<>>

\* C21: for every mailbox, the messages receive has returned followed by the
\* messages still in the mailbox are the messages send put there, in the order
\* of the puts; no message is returned twice; and a receive that returns
\* nothing leaves the mailbox as it was, empty.
MailboxFifo ==
    /\ \A r \in BusAgents : To(recvLog, r) \o Mailbox(r) = To(sentLog, r)
    /\ \A i, j \in DOMAIN recvLog : recvLog[i].id = recvLog[j].id => i = j
    /\ (lastBus.op = "receive" /\ ~lastBus.raised /\ lastBus.result = <<>>)
           => queues[lastBus.agent_id] = <<>>

\* the second of two messages of one mailbox has just been received
MailboxFifoWitness ==
    /\ lastBus.op = "receive"
    /\ lastBus.result # <<>>
    /\ Len(To(recvLog, lastBus.agent_id)) = 2

SameMessage(copy, message) ==
    /\ copy.sender = message.sender
    /\ copy.msg_type = message.msg_type
    /\ copy.content = message.content

\* C23: a broadcast appends one copy of the message (same sender, msg_type
\* and content, addressed to the subscriber) to the mailbox of each agent
\* subscribed to the message's type and leaves every other mailbox alone;
\* without subscribers it changes no mailbox, no counter and no history.
BroadcastStep ==
    lastBus'.op = "broadcast" =>
        LET message == lastBus'.msg[1]
            subs == IF message.msg_type \in DOMAIN subscriptions
                    THEN subscriptions[message.msg_type] ELSE {}
        IN  /\ \A a \in subs :
                   /\ a \in DOMAIN queues'
                   /\ Len(queues'[a]) = Len(Mailbox(a)) + 1
                   /\ SubSeq(queues'[a], 1, Len(Mailbox(a))) = Mailbox(a)
                   /\ SameMessage(queues'[a][Len(queues'[a])], message)
                   /\ queues'[a][Len(queues'[a])].receiver = a
            /\ \A a \in (DOMAIN queues' \cup DOMAIN queues) \ subs :
                   a \in DOMAIN queues /\ a \in DOMAIN queues' /\ queues'[a] = queues[a]
            /\ subs = {} => UNCHANGED <<queues, stats, message_history>>

BroadcastFanOut == [][BroadcastStep]_vars

\* a broadcast has just reached two subscribers while another type has
\* subscribers too
BroadcastFanOutWitness ==
    /\ lastBus.op = "broadcast"
    /\ Len(lastBus.result) = 2
    /\ \E ty \in DOMAIN subscriptions :
           ty # lastBus.msg[1].msg_type /\ subscriptions[ty] # {}

\* C24: no call of the bus decreases messages_sent, messages_received or
\* broadcasts_sent.
MonotonicCounters ==
    [][/\ stats'.messages_sent >= stats.messages_sent
       /\ stats'.messages_received >= stats.messages_received
       /\ stats'.broadcasts_sent >= stats.broadcasts_sent]_vars

\* the versions of the entries of key that callback was called with, in order
NotifiedTo(key, callback) ==
    LET s == SelectSeq(notified, LAMBDA c : c[1] = key /\ c[2] = callback)
    IN  [i \in 1..Len(s) |-> s[i][3]]

VersionOf(key) == IF key \in DOMAIN data THEN data[key].version ELSE 0

\* C25: for each key the versions its subscribers are called with strictly
\* increase, whatever writes, deletes and clears are made
VersionMonotonic ==
    \A key \in MemKeys, callback \in ObserverIds :
        LET s == NotifiedTo(key, callback)
        IN  \A i \in 1..(Len(s) - 1) : s[i] < s[i + 1]

Writing(t) == mpc[t] \in {"w_key", "w_version", "w_store", "w_notify"}

\* C26: when threads write a key that is never deleted, a subscriber of the
\* key has been called with the versions 1, 2, ... up to the stored version
\* (up to the one before it while the writer of the stored version has not
\* yet called it), and once all N writes have returned the stored versions
\* add up to N
ConcurrentWriters ==
    /\ \A key \in MemKeys :
           \A n \in 1..Len(ObserversOf(key)) :
               LET s == NotifiedTo(key, ObserversOf(key)[n])
               IN  /\ s = [i \in 1..Len(s) |-> i]
                   /\ \/ Len(s) = VersionOf(key)
                      \/ /\ Len(s) = VersionOf(key) - 1
                         /\ \E t \in Threads :
                                /\ mpc[t] = "w_notify"
                                /\ mloc[t].key = key
                                /\ mloc[t].i <= n
    /\ AllIdle => VersionOf("k1") + VersionOf("k2") = mem_stats.writes

\* two threads have written the same key, and its subscriber was called with
\* version 1 by the one and with version 2 by the other
ConcurrentWritersWitness ==
    /\ AllIdle
    /\ VersionOf("k1") = 2
    /\ \E i, j \in 1..Len(notified) :
           /\ notified[i][1] = "k1" /\ notified[j][1] = "k1"
           /\ notified[i][2] = notified[j][2]
           /\ notified[i][3] = 1 /\ notified[j][3] = 2
           /\ notified[i][4] # notified[j][4]

\* C27: a write that returns has stored its entry with the new version, has
\* called every observer of the key in subscription order, also after one of
\* them raised, and has not raised
ObserverIsolationStep ==
    \A t \in Threads :
        (mpc[t] = "w_notify" /\ mpc'[t] = "idle") =>
            /\ lastMem'.op = "write"
            /\ ~lastMem'.raised
            /\ mloc[t].key \in DOMAIN data'
            /\ data'[mloc[t].key].version = mloc[t].new_version
            /\ data'[mloc[t].key].author = t
            /\ lastMem'.version = mloc[t].new_version
            /\ Len(lastMem'.called) = Len(ObserversOf(mloc[t].key))
            /\ \A i \in 1..Len(lastMem'.called) :
                   lastMem'.called[i][1] = ObserversOf(mloc[t].key)[i]

ObserverIsolation == [][ObserverIsolationStep]_vars

\* a write has returned after its first observer raised and its second ran
ObserverIsolationWitness ==
    /\ lastMem.op = "write"
    /\ ~lastMem.raised
    /\ Len(lastMem.called) = 2
    /\ lastMem.called[1][2] = "Exception"
    /\ lastMem.called[2][2] = "returns"
    /\ lastMem.key \in DOMAIN data
    /\ data[lastMem.key].version = lastMem.version

Deleting(t) == mpc[t] \in {"d_lock", "d_observers", "d_exit"}

\* C28: while a thread is inside delete no other thread begins, continues or
\* ends a call; when delete returns True the key has no entry, no lock and no
\* observers; delete of a key without an entry returns False and changes
\* nothing
AtomicDeleteStep ==
    /\ \A t \in Threads :
           Deleting(t) =>
               /\ \A u \in Threads \ {t} : mpc'[u] = mpc[u] /\ mloc'[u] = mloc[u]
               /\ lastMem' = lastMem \/ lastMem'.thread = t
    /\ \A t \in Threads :
           (mpc[t] = "d_exit" /\ mpc'[t] = "idle") =>
               /\ lastMem'.op = "delete" /\ lastMem'.result
               /\ mloc[t].key \notin DOMAIN data'
               /\ mloc[t].key \notin DOMAIN key_locks'
               /\ mloc[t].key \notin DOMAIN observers'
    /\ (lastMem' # lastMem /\ lastMem'.op = "delete" /\ ~lastMem'.result) =>
           /\ lastMem'.key \notin DOMAIN data
           /\ UNCHANGED <<data, key_locks, observers, mem_stats, disk>>

AtomicDelete == [][AtomicDeleteStep]_vars

\* a key whose observer had been called was deleted, and the first write
\* made after the delete called no observer
AtomicDeleteWitness ==
    /\ lastMem.op = "write"
    /\ lastMem.called = <<>>
    /\ mem_stats.deletes > 0
    /\ \E i \in 1..Len(notified) : notified[i][1] = lastMem.key
    /\ lastMem.version = 1

\* the locks that a write of key by thread u takes are not all free
Blocked(u, key) ==
    \/ ~GlobalLockFree(u)
    \/ key \in DOMAIN key_locks /\ key_locks[key] # NoThread

\* C29: while a thread is inside a write of one key, an idle thread can take
\* every lock that a read or a write of another key needs
WriteIndependence ==
    \A t \in Threads, u \in Threads, k2 \in MemKeys :
        (t # u /\ Writing(t) /\ mloc[t].key # k2 /\ mpc[u] = "idle") => ~Blocked(u, k2)

\* C30: with persistence enabled, after a write, a successful delete or a
\* clear has returned, the file exists and loading it gives the stored map
SnapshotPersistence ==
    ( /\ enable_persistence
      /\ AllIdle
      /\ lastMem.op \in {"write", "delete", "clear"}
      /\ lastMem.result )
    => /\ disk # NoFile
       /\ DOMAIN LoadFromDisk(disk) = DOMAIN data
       /\ \A key \in DOMAIN data : LoadFromDisk(disk)[key] = data[key]

\* C31: Message.from_dict(message.to_dict()) has the sender, receiver,
\* msg_type, content, id and metadata of message
MessageRoundTrip ==
    lastBus.op = "from_dict" =>
        LET message == lastBus.msg[1]
            restored == lastBus.result[1]
        IN  /\ restored.sender = message.sender
            /\ restored.receiver = message.receiver
            /\ restored.msg_type = message.msg_type
            /\ restored.content = message.content
            /\ restored.id = message.id
            /\ restored.metadata = message.metadata

\* a message with metadata and a timestamp without microseconds was restored
MessageRoundTripWitness ==
    /\ lastBus.op = "from_dict"
    /\ lastBus.msg[1].metadata # <<>>
    /\ lastBus.msg[1].timestamp[2] = 0
    /\ lastBus.result[1].timestamp = lastBus.msg[1].timestamp
    /\ lastBus.result[1].metadata # <<>>

\* C32: aggregate of a non-empty list with ENSEMBLE returns the list of the
\* values of all results, in input order
EnsemblePassThrough ==
    (lastAgg.op = "aggregate" /\ lastAgg.strategy = "ensemble" /\ lastAgg.results # <<>>) =>
        /\ lastAgg.returned[1] = "list"
        /\ Len(lastAgg.returned[2]) = Len(lastAgg.results)
        /\ \A i \in 1..Len(lastAgg.results) : lastAgg.returned[2][i] = lastAgg.results[i][1]

\* C33: no task is in the ready queue twice, so none is put there a second
\* time while its first entry waits and none is returned twice
AtMostOnceDispatch ==
    \A i \in 1..Len(queue), j \in 1..Len(queue) : i # j => queue[i] # queue[j]

\* C34: get_next_task does not return a task that was cancelled while PENDING,
\* and the status of a cancelled task stays CANCELLED
CancelledNotDispatched ==
    [][\A t \in DOMAIN tasks :
           tasks[t].status = CANCELLED =>
               /\ tasks'[t].status = CANCELLED
               /\ ~(lastOp'.op = "get_next_task" /\ lastOp'.id = t /\ queue' # queue)]_vars

\* C35: pending, in_progress, completed and failed are pairwise disjoint and
\* hold exactly the tasks whose status is PENDING, IN_PROGRESS, COMPLETED and
\* FAILED
StatusIndex ==
    /\ pending \cap in_progress = {} /\ pending \cap completed = {}
    /\ pending \cap failed = {} /\ in_progress \cap completed = {}
    /\ in_progress \cap failed = {} /\ completed \cap failed = {}
    /\ \A t \in DOMAIN tasks :
           /\ t \in pending <=> tasks[t].status = PENDING
           /\ t \in in_progress <=> tasks[t].status = IN_PROGRESS
           /\ t \in completed <=> tasks[t].status = COMPLETED
           /\ t \in failed <=> tasks[t].status = FAILED

\* C36: execute_task completes its task only with a result message whose
\* task_id is that of the task it sent
ReplyCorrelation ==
    [][(pc = "wait" /\ pc' = "loop" /\ lastExec'.outcome = "True") =>
           Head(queues[OrchestratorId]).content.task_id = cur.task]_vars

\* C37: a thread inside write that has taken the global lock can take the
\* lock of its key, so write goes on to its return - also when the write is
\* made by an observer callback of the key being written
WriteNeverBlocked ==
    \A t \in Threads : mpc[t] = "w_key" => KeyLockFree(mloc[t].key)

\* C38: b is in get_dependents(a) exactly if a is in get_dependencies(b), and
\* both ends of every edge are in the node set
AdjacencyConsistent ==
    LET ids == NodeIds \cup DOMAIN graph \cup DOMAIN reverse_graph
    IN  \A a \in ids, b \in ids :
            /\ b \in GetDependents(TheGraph, a) <=> a \in GetDependencies(TheGraph, b)
            /\ a \in GetDependencies(TheGraph, b) => a \in nodes /\ b \in nodes

\* an edge is left after an add_dependency was rejected and another edge
\* was removed
AdjacencyConsistentWitness ==
    /\ lastGraph.op = "remove_dependency"
    /\ lastGraph.node_id \in nodes
    /\ lastGraph.depends_on \in nodes
    /\ \E a \in nodes, b \in nodes : /\ a \in GetDependencies(TheGraph, b)
                                    /\ b \in GetDependencies(TheGraph, lastGraph.node_id)
    /\ lastGraph.depends_on \notin GetDependencies(TheGraph, lastGraph.node_id)
    /\ lastGraph.node_id \notin GetDependents(TheGraph, lastGraph.depends_on)

\* C39: the by-type index of a type holds exactly the IDs of the registered
\* agents whose current agent_type is that type, and the by-capability index
\* of a capability exactly the IDs of the registered agents whose current
\* capabilities contain it
IndexesMatchAgents ==
    /\ \A ty \in RegTypes \cup DOMAIN agents_by_type :
           FindByType(ty) = {a \in DOMAIN agents : agents[a].agent_type = ty}
    /\ \A c \in Capabilities \cup DOMAIN agents_by_capability :
           FindByCapability(c) = {a \in DOMAIN agents : c \in agents[a].capabilities}

\* the number of places a task ID takes in the three lists of a run summary
Listings(id) ==
    Cardinality({i \in DOMAIN results.completed : results.completed[i] = id})
    + Cardinality({i \in DOMAIN results.failed : results.failed[i] = id})
    + Cardinality({i \in DOMAIN results.cancelled : results.cancelled[i] = id})

\* C40: when execute_all returns, every submitted task ID is in exactly one of
\* the completed, failed and cancelled lists, and the task's status is
\* COMPLETED, FAILED or PENDING accordingly
SummaryIsPartition ==
    pc = "returned" =>
        /\ \A id \in TaskIds : Listings(id) = 1
        /\ \A id \in Range(results.completed) : id \in TaskIds /\ tasks[id].status = COMPLETED
        /\ \A id \in Range(results.failed) : id \in TaskIds /\ tasks[id].status = FAILED
        /\ \A id \in Range(results.cancelled) : id \in TaskIds /\ tasks[id].status = PENDING

\* the same with the tasks set aside that found no agent of their type
SummaryOfAssigned ==
    pc = "returned" =>
        \A id \in TaskIds :
            FindByType(tasks[id].agent_type) # {} =>
                /\ Listings(id) = 1
                /\ id \in Range(results.completed) => tasks[id].status = COMPLETED
                /\ id \in Range(results.failed) => tasks[id].status = FAILED
                /\ id \in Range(results.cancelled) => tasks[id].status = PENDING

====
